---- MODULE Spec2Model ----
(***************************************************************************)
(* Model of the akasa-insight ingestion and KPI code:                      *)
(*   src/src/utils/helpers.py            DataHelpers (normalizers)          *)
(*   src/src/database/db_setup.py        Customer, Order, DatabaseManager   *)
(*   src/src/database/load_data.py       DataLoader                         *)
(*   src/src/processing/sql_queries.py   SQLAnalytics                       *)
(*   src/src/processing/pandas_processing.py  PandasAnalytics               *)
(*   src/src/processing/dask_processing.py    DaskAnalytics                 *)
(*                                                                         *)
(* Text is a sequence of one-character strings.  A Python value is a       *)
(* record [t, v]: t is the Python type name, v the payload.  A float is    *)
(* an exact decimal in thousandths ("mills") or one of inf, -inf, nan.     *)
(***************************************************************************)
EXTENDS Integers, Sequences, FiniteSets, TLC

(***************************************************************************)
(* Python values                                                           *)
(***************************************************************************)
PyNone == [t |-> "NoneType", v |-> <<>>]

PyStr(s) == [t |-> "str", v |-> s]

PyInt(n) == [t |-> "int", v |-> n]

PyFloat(k, m) == [t |-> "float", v |-> [k |-> k, m |-> m]]

PyNaN == PyFloat("nan", 0)

PyDatetime(d) == [t |-> "datetime", v |-> d]

Digits == {"0", "1", "2", "3", "4", "5", "6", "7", "8", "9"}

Whitespace == {" "}

DigitVal(c) ==
    CASE c = "0" -> 0 [] c = "1" -> 1 [] c = "2" -> 2 [] c = "3" -> 3
      [] c = "4" -> 4 [] c = "5" -> 5 [] c = "6" -> 6 [] c = "7" -> 7
      [] c = "8" -> 8 [] c = "9" -> 9

DigitChar(n) ==
    CASE n = 0 -> "0" [] n = 1 -> "1" [] n = 2 -> "2" [] n = 3 -> "3"
      [] n = 4 -> "4" [] n = 5 -> "5" [] n = 6 -> "6" [] n = 7 -> "7"
      [] n = 8 -> "8" [] n = 9 -> "9"

IsDigit(c) == c \in Digits

AllDigits(s) == \A i \in 1..Len(s) : s[i] \in Digits

RECURSIVE LStrip(_)
LStrip(s) ==
    IF s # <<>> /\ Head(s) \in Whitespace THEN LStrip(Tail(s)) ELSE s

RECURSIVE RStrip(_)
RStrip(s) ==
    IF s # <<>> /\ s[Len(s)] \in Whitespace
    THEN RStrip(SubSeq(s, 1, Len(s) - 1)) ELSE s

\* str.strip()
Strip(s) == RStrip(LStrip(s))

\* value of a digit string, most significant digit first
RECURSIVE DigitsToNat(_)
DigitsToNat(s) ==
    IF s = <<>> THEN 0
    ELSE 10 * DigitsToNat(SubSeq(s, 1, Len(s) - 1)) + DigitVal(s[Len(s)])

RECURSIVE NatToText(_)
NatToText(n) ==
    IF n < 10 THEN <<DigitChar(n)>>
    ELSE NatToText(n \div 10) \o <<DigitChar(n % 10)>>

IntToText(n) == IF n < 0 THEN <<"-">> \o NatToText(0 - n) ELSE NatToText(n)

\* zero-padded decimal of width w
RECURSIVE Pad(_, _)
Pad(n, w) == IF w = 0 THEN <<>> ELSE Pad(n \div 10, w - 1) \o <<DigitChar(n % 10)>>

\* repr of the fractional part of a float given in mills: at least one digit,
\* no trailing zero
FracText(m) ==
    IF m % 1000 = 0 THEN <<"0">>
    ELSE IF m % 100 = 0 THEN Pad((m % 1000) \div 100, 1)
    ELSE IF m % 10 = 0 THEN Pad((m % 1000) \div 10, 2)
    ELSE Pad(m % 1000, 3)

FloatToText(f) ==
    CASE f.k = "nan" -> <<"n", "a", "n">>
      [] f.k = "inf" -> <<"i", "n", "f">>
      [] f.k = "ninf" -> <<"-", "i", "n", "f">>
      [] OTHER -> IF f.m < 0
                  THEN <<"-">> \o NatToText((0 - f.m) \div 1000) \o <<".">> \o FracText(0 - f.m)
                  ELSE NatToText(f.m \div 1000) \o <<".">> \o FracText(f.m)

\* datetime.__str__
DatetimeToText(d) ==
    Pad(d.year, 4) \o <<"-">> \o Pad(d.month, 2) \o <<"-">> \o Pad(d.day, 2)
      \o <<" ">> \o Pad(d.hour, 2) \o <<":">> \o Pad(d.minute, 2)
      \o <<":">> \o Pad(d.second, 2)
      \o (IF d.microsecond = 0 THEN <<>> ELSE <<".">> \o Pad(d.microsecond, 6))

\* the builtin str()
Str(x) ==
    CASE x.t = "str" -> x.v
      [] x.t = "NoneType" -> <<"N", "o", "n", "e">>
      [] x.t = "int" -> IntToText(x.v)
      [] x.t = "float" -> FloatToText(x.v)
      [] x.t = "datetime" -> DatetimeToText(x.v)

\* Python's  value is None or value == ''
IsNoneOrEmpty(x) == x.t = "NoneType" \/ (x.t = "str" /\ x.v = <<>>)

(***************************************************************************)
(* DataHelpers.clean_string                                                *)
(***************************************************************************)
\* return cleaned if cleaned else None
CleanedOrNone(cleaned) == IF cleaned # <<>> THEN PyStr(cleaned) ELSE PyNone

clean_string(value) ==
    IF value.t = "NoneType" THEN PyNone
    ELSE CleanedOrNone(Strip(Str(value)))

(***************************************************************************)
(* DataHelpers.normalize_mobile_number                                     *)
(***************************************************************************)
MobileLen == 10

\* the first 10 digits kept in place of the last 10
LastDigits_FirstTen(mobile_clean) ==
    IF Len(mobile_clean) >= MobileLen THEN PyStr(SubSeq(mobile_clean, 1, MobileLen))
    ELSE IF mobile_clean = <<>> THEN PyNone ELSE PyStr(mobile_clean)

\* the slice [1:] in place of [-10:]: the digits without the first one
LastDigits_DropFirst(mobile_clean) ==
    IF Len(mobile_clean) >= MobileLen THEN PyStr(Tail(mobile_clean))
    ELSE IF mobile_clean = <<>> THEN PyNone ELSE PyStr(mobile_clean)

\* the last 10 digits, or the digits when fewer, or None when there is none
LastDigits(mobile_clean) ==
    IF Len(mobile_clean) >= MobileLen
    THEN PyStr(SubSeq(mobile_clean, Len(mobile_clean) - MobileLen + 1, Len(mobile_clean)))
    ELSE IF mobile_clean = <<>> THEN PyNone ELSE PyStr(mobile_clean)

normalize_mobile_number(mobile) ==
    IF IsNoneOrEmpty(mobile) THEN PyNone
    ELSE LastDigits(SelectSeq(Strip(Str(mobile)), IsDigit))

(***************************************************************************)
(* float(text): optional sign, digits with an optional fraction and an     *)
(* optional exponent, or one of the special spellings inf / nan.           *)
(* Underscores are outside the inputs used here.  Fractions are kept to    *)
(* three decimal places; a value above the largest double is an infinity.  *)
(***************************************************************************)
IndexOfDot(s) ==
    IF \E i \in 1..Len(s) : s[i] = "."
    THEN CHOOSE i \in 1..Len(s) : s[i] = "." /\ \A j \in 1..(i - 1) : s[j] # "."
    ELSE 0

FracMills(fp) == DigitsToNat(SubSeq(fp \o <<"0", "0", "0">>, 1, 3))

\* the integer part ip and the fraction fp of the digits
ParseParts(ip, fp, neg) ==
    IF AllDigits(ip) /\ AllDigits(fp) /\ (ip # <<>> \/ fp # <<>>)
    THEN [ok |-> TRUE,
          f |-> [k |-> "fin",
                 m |-> (IF neg THEN -1 ELSE 1) * (DigitsToNat(ip) * 1000 + FracMills(fp))]]
    ELSE [ok |-> FALSE, f |-> [k |-> "nan", m |-> 0]]

ParseDigits(body, dot, neg) ==
    ParseParts(IF dot = 0 THEN body ELSE SubSeq(body, 1, dot - 1),
               IF dot = 0 THEN <<>> ELSE SubSeq(body, dot + 1, Len(body)), neg)

\* the position of the exponent mark, 0 when there is none
IndexOfE(s) ==
    IF \E i \in 1..Len(s) : s[i] \in {"e", "E"}
    THEN CHOOSE i \in 1..Len(s) : s[i] \in {"e", "E"} /\ \A j \in 1..(i - 1) : s[j] \notin {"e", "E"}
    ELSE 0

\* the exponent: an optional sign and digits
ParseExp(s) ==
    IF s # <<>> /\ Head(s) \in {"+", "-"}
    THEN [ok |-> Tail(s) # <<>> /\ AllDigits(Tail(s)),
          n |-> IF Tail(s) # <<>> /\ AllDigits(Tail(s))
                THEN (IF Head(s) = "-" THEN -1 ELSE 1) * DigitsToNat(Tail(s)) ELSE 0]
    ELSE [ok |-> s # <<>> /\ AllDigits(s),
          n |-> IF s # <<>> /\ AllDigits(s) THEN DigitsToNat(s) ELSE 0]

\* the largest power of ten a double with a mantissa of one digit holds
MaxExp10 == 308

RECURSIVE Pow10(_)
Pow10(n) == IF n = 0 THEN 1 ELSE 10 * Pow10(n - 1)

\* the mantissa r times ten to the power x: an infinity above the largest
\* double, and the mills cut off below one mill
Scale(r, x, neg) ==
    IF ~r.ok \/ ~x.ok THEN [ok |-> FALSE, f |-> [k |-> "nan", m |-> 0]]
    ELSE IF r.f.m = 0 THEN r
    ELSE IF x.n > MaxExp10
    THEN [ok |-> TRUE, f |-> [k |-> IF neg THEN "ninf" ELSE "inf", m |-> 0]]
    ELSE IF x.n >= 0 THEN [ok |-> TRUE, f |-> [k |-> "fin", m |-> r.f.m * Pow10(x.n)]]
    ELSE [ok |-> TRUE,
          f |-> [k |-> "fin",
                 m |-> (IF neg THEN -1 ELSE 1)
                         * ((IF neg THEN 0 - r.f.m ELSE r.f.m) \div Pow10(0 - x.n))]]

ParseExponent(body, e, neg) ==
    Scale(ParseDigits(SubSeq(body, 1, e - 1), IndexOfDot(SubSeq(body, 1, e - 1)), neg),
          ParseExp(SubSeq(body, e + 1, Len(body))), neg)

\* the text after the sign
ParseBody(body, neg) ==
    IF body = <<"i", "n", "f">>
    THEN [ok |-> TRUE, f |-> [k |-> IF neg THEN "ninf" ELSE "inf", m |-> 0]]
    ELSE IF body = <<"n", "a", "n">>
    THEN [ok |-> TRUE, f |-> [k |-> "nan", m |-> 0]]
    ELSE IF IndexOfE(body) # 0 THEN ParseExponent(body, IndexOfE(body), neg)
    ELSE ParseDigits(body, IndexOfDot(body), neg)

ParseSigned(s) ==
    ParseBody(IF s # <<>> /\ Head(s) \in {"+", "-"} THEN Tail(s) ELSE s,
              s # <<>> /\ Head(s) = "-")

ParseFloat(text) == ParseSigned(Strip(text))

\* the builtin float(): ok = FALSE stands for ValueError / TypeError
ToFloat(value) ==
    CASE value.t = "str" -> ParseFloat(value.v)
      [] value.t = "float" -> [ok |-> TRUE, f |-> value.v]
      [] value.t = "int" -> [ok |-> TRUE, f |-> [k |-> "fin", m |-> value.v * 1000]]
      [] OTHER -> [ok |-> FALSE, f |-> [k |-> "nan", m |-> 0]]

\* int(f) for a finite float: truncation toward zero
TruncMills(m) == IF m >= 0 THEN m \div 1000 ELSE 0 - ((0 - m) \div 1000)

\* an exception that leaves the function
PyRaise(e) == [t |-> "raise", v |-> e]

(***************************************************************************)
(* DataHelpers.safe_float                                                  *)
(***************************************************************************)
\* try: return float(value); except (ValueError, TypeError): return default
FloatOrDefault(r, default) == IF r.ok THEN [t |-> "float", v |-> r.f] ELSE default

safe_float(value, default) ==
    IF IsNoneOrEmpty(value) THEN default
    ELSE FloatOrDefault(ToFloat(value), default)

(***************************************************************************)
(* DataHelpers.safe_int: int(float(value)); only ValueError and TypeError  *)
(* are caught, so int(inf) leaves the function as OverflowError.           *)
(***************************************************************************)
\* int(r) of the float r: ValueError for NaN, OverflowError for an infinity
IntOrDefault(r, default) ==
    IF ~r.ok THEN default
    ELSE IF r.f.k = "nan" THEN default
    ELSE IF r.f.k \in {"inf", "ninf"} THEN PyRaise("OverflowError")
    ELSE PyInt(TruncMills(r.f.m))

safe_int(value, default) ==
    IF IsNoneOrEmpty(value) THEN default
    ELSE IntOrDefault(ToFloat(value), default)

(***************************************************************************)
(* datetime.strptime for the directives the format list uses.  A format    *)
(* is a sequence of tokens: a directive or a literal character.  Matching  *)
(* follows the regular expression strptime builds: alternatives in order,  *)
(* backtracking on failure, then a check that the whole text was used.     *)
(***************************************************************************)
Directives == {"%Y", "%m", "%d", "%H", "%M", "%S", "%f"}

AllDigitsAt(s, j, n) == j + n - 1 <= Len(s) /\ AllDigits(SubSeq(s, j, j + n - 1))

NumAt(s, j, n) == DigitsToNat(SubSeq(s, j, j + n - 1))

\* a fixed-width numeric alternative, when it matches at j with a value in lo..hi
NumCand(s, j, n, lo, hi) ==
    IF AllDigitsAt(s, j, n) /\ NumAt(s, j, n) >= lo /\ NumAt(s, j, n) <= hi
    THEN <<[n |-> n, val |-> NumAt(s, j, n)]>> ELSE <<>>

\* "0[1-9]"-style two-digit alternatives never match a single leading digit twice
TwoThenOne(s, j, lo, hi, lo1) == NumCand(s, j, 2, lo, hi) \o NumCand(s, j, 1, lo1, 9)

SpaceDigitCand(s, j) ==
    IF j + 1 <= Len(s) /\ s[j] = " " /\ AllDigitsAt(s, j + 1, 1) /\ NumAt(s, j + 1, 1) >= 1
    THEN <<[n |-> 2, val |-> NumAt(s, j + 1, 1)]>> ELSE <<>>

\* [0-9]{1,6}, greedy; the value is scaled to microseconds
RECURSIVE FracCands(_, _, _)
FracCands(s, j, n) ==
    IF n = 0 THEN <<>>
    ELSE (IF AllDigitsAt(s, j, n)
          THEN <<[n |-> n, val |-> DigitsToNat(SubSeq(SubSeq(s, j, j + n - 1)
                                     \o <<"0", "0", "0", "0", "0">>, 1, 6))]>>
          ELSE <<>>) \o FracCands(s, j, n - 1)

\* \s+, greedy
RECURSIVE SpaceCands(_, _, _)
SpaceCands(s, j, n) ==
    IF n = 0 THEN <<>>
    ELSE (IF j + n - 1 <= Len(s) /\ \A i \in j..(j + n - 1) : s[i] \in Whitespace
          THEN <<[n |-> n, val |-> 0]>> ELSE <<>>) \o SpaceCands(s, j, n - 1)

LowerChar(c) == IF c = "T" THEN "t" ELSE c

Cands(tok, s, j) ==
    CASE tok = "%Y" -> NumCand(s, j, 4, 0, 9999)
      [] tok = "%m" -> TwoThenOne(s, j, 1, 12, 1)
      [] tok = "%d" -> TwoThenOne(s, j, 1, 31, 1) \o SpaceDigitCand(s, j)
      [] tok = "%H" -> TwoThenOne(s, j, 0, 23, 0)
      [] tok = "%M" -> TwoThenOne(s, j, 0, 59, 0)
      [] tok = "%S" -> TwoThenOne(s, j, 0, 61, 0)
      [] tok = "%f" -> FracCands(s, j, 6)
      [] tok = " " -> SpaceCands(s, j, Len(s))
      [] OTHER -> IF j <= Len(s) /\ LowerChar(s[j]) = LowerChar(tok)
                  THEN <<[n |-> 1, val |-> 0]>> ELSE <<>>

NoMatch == [ok |-> FALSE, end |-> 0, f |-> [d \in Directives |-> 0]]

RECURSIVE Match(_, _, _, _, _), TryCands(_, _, _, _, _, _, _), MatchOrNext(_, _, _, _, _, _, _, _)
Match(fmt, i, s, j, acc) ==
    IF i > Len(fmt) THEN [ok |-> TRUE, end |-> j, f |-> acc]
    ELSE TryCands(fmt, i, s, j, acc, Cands(fmt[i], s, j), 1)

\* the candidate k of token i: the rest of the format matches after it (r),
\* or the next candidate is tried
MatchOrNext(r, fmt, i, s, j, acc, cs, k) ==
    IF r.ok THEN r ELSE TryCands(fmt, i, s, j, acc, cs, k + 1)

TryCands(fmt, i, s, j, acc, cs, k) ==
    IF k > Len(cs) THEN NoMatch
    ELSE MatchOrNext(Match(fmt, i + 1, s, j + cs[k].n,
                           IF fmt[i] \in Directives
                           THEN [acc EXCEPT ![fmt[i]] = cs[k].val] ELSE acc),
                     fmt, i, s, j, acc, cs, k)

IsLeap(y) == (y % 4 = 0 /\ y % 100 # 0) \/ y % 400 = 0

DaysInMonth(y, m) ==
    IF m = 2 THEN (IF IsLeap(y) THEN 29 ELSE 28)
    ELSE IF m \in {4, 6, 9, 11} THEN 30 ELSE 31

StrptimeDefaults ==
    [d \in Directives |-> IF d = "%Y" THEN 1900 ELSE IF d \in {"%m", "%d"} THEN 1 ELSE 0]

\* the datetime of the matched fields f, when they are a date
DatetimeOf(r, f, s) ==
    IF r.ok /\ r.end = Len(s) + 1 /\ f["%Y"] >= 1 /\ f["%S"] <= 59
       /\ f["%d"] <= DaysInMonth(f["%Y"], f["%m"])
    THEN [ok |-> TRUE,
          d |-> [year |-> f["%Y"], month |-> f["%m"], day |-> f["%d"],
                 hour |-> f["%H"], minute |-> f["%M"], second |-> f["%S"],
                 microsecond |-> f["%f"]]]
    ELSE [ok |-> FALSE,
          d |-> [year |-> 0, month |-> 0, day |-> 0, hour |-> 0, minute |-> 0,
                 second |-> 0, microsecond |-> 0]]

StrptimeOf(r, s) == DatetimeOf(r, r.f, s)

\* datetime.strptime(s, fmt): ok = FALSE stands for ValueError
strptime(s, fmt) == StrptimeOf(Match(fmt, 1, s, 1, StrptimeDefaults), s)

FmtDate(a, b, c, sep) == <<a, sep, b, sep, c>>

FmtTime == <<"%H", ":", "%M", ":", "%S">>

date_formats ==
    << FmtDate("%Y", "%m", "%d", "-") \o <<" ">> \o FmtTime,
       FmtDate("%Y", "%m", "%d", "-") \o <<" ">> \o FmtTime \o <<".", "%f">>,
       FmtDate("%Y", "%m", "%d", "-"),
       FmtDate("%d", "%m", "%Y", "/") \o <<" ">> \o FmtTime,
       FmtDate("%d", "%m", "%Y", "/"),
       FmtDate("%d", "%m", "%Y", "-") \o <<" ">> \o FmtTime,
       FmtDate("%d", "%m", "%Y", "-"),
       FmtDate("%Y", "%m", "%d", "/") \o <<" ">> \o FmtTime,
       FmtDate("%Y", "%m", "%d", "/"),
       <<"%Y", "%m", "%d">>,
       FmtDate("%Y", "%m", "%d", "-") \o <<"T">> \o FmtTime,
       FmtDate("%Y", "%m", "%d", "-") \o <<"T">> \o FmtTime \o <<".", "%f">> >>

(***************************************************************************)
(* DataHelpers.normalize_date                                              *)
(***************************************************************************)
RECURSIVE TryFormats(_, _), ParsedOrNext(_, _, _)
\* return datetime.strptime(...); except ValueError: continue
ParsedOrNext(r, date_str, k) ==
    IF r.ok THEN PyDatetime(r.d) ELSE TryFormats(date_str, k + 1)

TryFormats(date_str, k) ==
    IF k > Len(date_formats) THEN PyNone
    ELSE ParsedOrNext(strptime(date_str, date_formats[k]), date_str, k)

normalize_date(date_value) ==
    IF IsNoneOrEmpty(date_value) THEN PyNone
    ELSE IF date_value.t = "datetime" THEN date_value
    ELSE TryFormats(Strip(Str(date_value)), 1)

(***************************************************************************)
(* DataHelpers.validate_required_fields: data is a dict (a function from   *)
(* field names to Python values).                                          *)
(***************************************************************************)
\* the test  not data.get(field): a 0 is missing too
IsMissing_Falsy(data, field) ==
    field \notin DOMAIN data \/ data[field].t = "NoneType" \/ Strip(Str(data[field])) = <<>> \/ data[field] = PyInt(0)

IsMissing(data, field) ==
    \/ field \notin DOMAIN data
    \/ data[field].t = "NoneType"
    \/ Strip(Str(data[field])) = <<>>

\* return len(missing_fields) == 0, missing_fields
ValidationResult(missing_fields) ==
    [is_valid |-> Len(missing_fields) = 0, missing_fields |-> missing_fields]

validate_required_fields(data, required_fields) ==
    ValidationResult(SelectSeq(required_fields, LAMBDA field : IsMissing(data, field)))

(***************************************************************************)
(* The store: the customers and orders tables of db_setup.py.              *)
(* customers.mobile_number is UNIQUE, customer_id is AUTO_INCREMENT,       *)
(* orders.order_id is the PRIMARY KEY.  A db value is the committed state. *)
(***************************************************************************)
EmptyDb == [customers |-> {}, orders |-> {}, next_customer_id |-> 1]

\* Customer(...) and Order(...): the entity handed to session.add
Customer(customer_name, mobile_number, region) ==
    [tbl |-> "customers",
     row |-> [customer_name |-> customer_name.v, mobile_number |-> mobile_number.v,
              region |-> region.v]]

Order(order_id, mobile_number, order_date_time, sku_id, sku_count, total_amount) ==
    [tbl |-> "orders",
     row |-> [order_id |-> order_id.v, mobile_number |-> mobile_number.v,
              order_date_time |-> order_date_time.v, sku_id |-> sku_id.v,
              sku_count |-> sku_count.v, total_amount |-> total_amount.v]]

\* a Session made by sessionmaker(autocommit=False, autoflush=False): add()
\* only records the entity as pending; nothing reaches the tables before
\* commit() flushes
NewSession == [pending |-> <<>>, state |-> "open"]

\* DatabaseManager.get_session: SessionLocal(), a new Session at every call
get_session == NewSession

\* no Session: the operation did not reach get_session
NoSession == [pending |-> <<>>, state |-> "none"]

session_add(session, entity) == [session EXCEPT !.pending = Append(@, entity)]

\* rollback() expunges every pending entity of the session
session_rollback(session) == [session EXCEPT !.pending = <<>>]

\* a close() that releases nothing
session_close_NoOp(session) == session

\* finally: session.close() expunges what is left and releases the connection
session_close(session) == [pending |-> <<>>, state |-> "closed"]

\* 1 for a Session that is still open
OpenCount(session) == IF session.state = "open" THEN 1 ELSE 0

\* an INSERT into tables without the unique index and the primary key
InsertRow_NoUniqueKey(d, entity) ==
    IF entity.tbl = "customers"
    THEN [ok |-> TRUE,
          db |-> [d EXCEPT !.customers = @ \cup
                     {[customer_id |-> d.next_customer_id,
                       customer_name |-> entity.row.customer_name,
                       mobile_number |-> entity.row.mobile_number,
                       region |-> entity.row.region]},
                   !.next_customer_id = @ + 1]]
    ELSE [ok |-> TRUE, db |-> [d EXCEPT !.orders = @ \cup {entity.row}]]

\* an INSERT that replaces the row of the same key (an upsert)
InsertRow_Upsert(d, entity) ==
    IF entity.tbl = "customers"
    THEN [ok |-> TRUE,
          db |-> [d EXCEPT !.customers =
                     {c \in @ : c.mobile_number # entity.row.mobile_number} \cup
                     {[customer_id |-> d.next_customer_id,
                       customer_name |-> entity.row.customer_name,
                       mobile_number |-> entity.row.mobile_number,
                       region |-> entity.row.region]},
                   !.next_customer_id = @ + 1]]
    ELSE [ok |-> TRUE,
          db |-> [d EXCEPT !.orders =
                     {o \in @ : o.order_id # entity.row.order_id} \cup {entity.row}]]

\* INSERT of one entity: ok = FALSE is IntegrityError
InsertRow(d, entity) ==
    IF entity.tbl = "customers"
    THEN IF \E c \in d.customers : c.mobile_number = entity.row.mobile_number
         THEN [ok |-> FALSE, db |-> d]
         ELSE [ok |-> TRUE,
               db |-> [d EXCEPT !.customers = @ \cup
                          {[customer_id |-> d.next_customer_id,
                            customer_name |-> entity.row.customer_name,
                            mobile_number |-> entity.row.mobile_number,
                            region |-> entity.row.region]},
                        !.next_customer_id = @ + 1]]
    ELSE IF \E o \in d.orders : o.order_id = entity.row.order_id
         THEN [ok |-> FALSE, db |-> d]
         ELSE [ok |-> TRUE, db |-> [d EXCEPT !.orders = @ \cup {entity.row}]]

\* the flush of commit(): the pending entities are inserted in the order added
RECURSIVE Flush(_, _, _), FlushNext(_, _, _)
FlushNext(r, pending, i) == IF r.ok THEN Flush(r.db, pending, i + 1) ELSE r

Flush(d, pending, i) ==
    IF i > Len(pending) THEN [ok |-> TRUE, db |-> d]
    ELSE FlushNext(InsertRow(d, pending[i]), pending, i)

\* the outcome of commit() after the flush r: the new tables, or
\* IntegrityError and the tables rolled_back
CommitOutcome(r, rolled_back) ==
    IF r.ok THEN [ok |-> TRUE, exc |-> "", db |-> r.db]
    ELSE [ok |-> FALSE, exc |-> "IntegrityError", db |-> rolled_back]

KeepFlushed(r) == CommitOutcome(r, r.db)

\* a commit whose failed flush keeps the rows inserted before the failure
session_commit_NoRollback(d, session, db_error) ==
    IF db_error THEN [ok |-> FALSE, exc |-> "OperationalError", db |-> d]
    ELSE KeepFlushed(Flush(d, session.pending, 1))

\* session.commit(): all pending entities in one transaction, or an exception;
\* the caller's except branch then rolls the transaction back, which leaves the
\* tables as they were.  db_error is a failure of the database itself.
session_commit(d, session, db_error) ==
    IF db_error THEN [ok |-> FALSE, exc |-> "OperationalError", db |-> d]
    ELSE CommitOutcome(Flush(d, session.pending, 1), d)

\* DatabaseManager.reset_database: drop_tables, create_tables
reset_database_db == EmptyDb

(***************************************************************************)
(* Source files.  A CSV file is the rows csv.DictReader yields (a dict of  *)
(* cells: text, or None for a cell the row does not have) and read_error,  *)
(* set when reading fails after the last row listed.  An XML file is the   *)
(* <order> elements under the root (a child element is text, None when it  *)
(* is empty, or absent) and malformed, set when ET.parse fails.  exists is *)
(* what Path(path).exists() answers for the path of the file.              *)
(***************************************************************************)
Absent == [t |-> "absent", v |-> <<>>]

CsvRow(name, mobile, region) ==
    [customer_name |-> name, mobile_number |-> mobile, region |-> region]

XmlOrder(order_id, mobile, dt, sku_id, sku_count, total_amount) ==
    [order_id |-> order_id, mobile_number |-> mobile, order_date_time |-> dt,
     sku_id |-> sku_id, sku_count |-> sku_count, total_amount |-> total_amount]

\* order_elem.find(tag).text if order_elem.find(tag) is not None else None
ElemText(order_elem, tag) ==
    IF order_elem[tag].t = "absent" THEN PyNone ELSE order_elem[tag]

(***************************************************************************)
(* The files the operations are run on                                     *)
(***************************************************************************)
TxtA == <<"A">>

TxtB == <<"B">>

TxtNorth == <<"N">>

TxtSouth == <<"S">>

TxtBlank == <<" ">>

TxtSku == <<"K", "1">>

Mob1 == <<"9", "8", "7", "6", "5", "4", "3", "2", "1", "0">>

\* the same number with a country code and separators
Mob1Alt == <<"+", "9", "1", "-">> \o Mob1

Mob2 == <<"9", "8", "7", "6", "5", "4", "3", "2", "1", "1">>

MobShort == <<"1", "2">>

DateOct == <<"2", "0", "2", "4", "-", "1", "0", "-", "1", "5", " ", "1", "0", ":", "3", "0", ":", "0", "0">>

DateNov == <<"0", "2", "/", "1", "1", "/", "2", "0", "2", "4">>

DateBad == <<"1", "5", ".", "1", "0", ".", "2", "0", "2", "4">>

Amt5500 == <<"5", ".", "5">>

Amt4 == <<"0", ".", "0", "0", "4">>

Amt2004 == <<"2", ".", "0", "0", "4">>

TxtInf == <<"i", "n", "f">>

Row(name, mobile, region) == CsvRow(PyStr(name), PyStr(mobile), PyStr(region))

Csv(rows) == [rows |-> rows, read_error |-> FALSE, exists |-> TRUE]

CsvFiles ==
    { Csv(<<>>),
      Csv(<<Row(TxtA, Mob1, TxtNorth)>>),
      Csv(<<Row(TxtA, Mob1, TxtNorth), Row(TxtB, Mob2, TxtSouth)>>),
      Csv(<<Row(TxtA, Mob1, TxtNorth), Row(TxtB, Mob1Alt, TxtSouth), Row(TxtB, Mob2, TxtSouth)>>),
      Csv(<<Row(TxtBlank, Mob1, TxtNorth), Row(TxtB, MobShort, TxtSouth)>>),
      Csv(<<Row(TxtB, Mob2, TxtSouth), Row(TxtA, MobShort, <<>>)>>),
      Csv(<<CsvRow(PyStr(TxtA), PyStr(Mob1), PyNone), Row(TxtB, TxtBlank, TxtSouth)>>),
      [rows |-> <<Row(TxtB, Mob2, TxtSouth)>>, read_error |-> TRUE, exists |-> TRUE] }

Ord(order_id, mobile, dt, amount) ==
    XmlOrder(PyStr(order_id), PyStr(mobile), PyStr(dt), PyStr(TxtSku), PyStr(<<"2">>),
             PyStr(amount))

Xml(elems) == [orders |-> elems, malformed |-> FALSE, exists |-> TRUE]

XmlFiles ==
    { Xml(<<>>),
      Xml(<<Ord(<<"1">>, Mob1, DateOct, Amt5500), Ord(<<"2">>, Mob1Alt, DateNov, Amt4)>>),
      Xml(<<Ord(<<"1">>, Mob1, DateOct, Amt5500), Ord(<<"2">>, Mob1, DateOct, Amt4),
            Ord(<<"3">>, Mob2, DateNov, Amt2004)>>),
      Xml(<<Ord(<<"3">>, Mob2, DateOct, Amt4), Ord(<<" ", "3", ".", "0">>, Mob1, DateNov, Amt5500),
            Ord(<<"4">>, Mob2, DateNov, Amt2004)>>),
      Xml(<<Ord(<<"5">>, Mob2, DateNov, Amt2004), Ord(TxtInf, Mob1, DateOct, Amt4),
            Ord(<<"6">>, MobShort, DateOct, Amt5500)>>),
      Xml(<<Ord(TxtInf, Mob1, DateOct, Amt4), Ord(<<"6">>, Mob1, DateOct, Amt4)>>),
      Xml(<<Ord(<<"0">>, Mob1, DateOct, Amt4), Ord(<<"7">>, Mob1, DateBad, Amt4),
            Ord(<<"8">>, MobShort, DateOct, <<"x">>)>>),
      Xml(<<XmlOrder(PyStr(<<"9">>), PyStr(Mob2), PyStr(DateOct), Absent, PyStr(TxtInf),
                     PyStr(Amt4)),
            XmlOrder(PyStr(<<"9">>), PyNone, PyStr(DateOct), PyStr(TxtSku), Absent,
                     PyStr(Amt5500)),
            Ord(<<"1", "0">>, Mob2, DateOct, Amt4)>>),
      [orders |-> <<Ord(<<"1">>, Mob1, DateOct, Amt5500)>>, malformed |-> TRUE,
       exists |-> TRUE] }

\* a path with no file
MissingCsv == [rows |-> <<>>, read_error |-> FALSE, exists |-> FALSE]

MissingXml == [orders |-> <<>>, malformed |-> FALSE, exists |-> FALSE]

\* the paths a loader may be called on
CsvPaths == CsvFiles \cup {MissingCsv}

XmlPaths == XmlFiles \cup {MissingXml}

(***************************************************************************)
(* DataLoader.load_customers_from_csv                                      *)
(***************************************************************************)
CustomerRequired == <<"customer_name", "mobile_number", "region">>

\* the row loop after the normalization of the three cells
CustomerChecked(customer_name, mobile_number, region, st) ==
    IF ~validate_required_fields(
            [customer_name |-> customer_name, mobile_number |-> mobile_number,
             region |-> region], CustomerRequired).is_valid
    THEN [st EXCEPT !.skipped = @ + 1]
    ELSE [st EXCEPT !.session = session_add(@, Customer(customer_name, mobile_number, region)),
                    !.loaded = @ + 1]

\* the body of the row loop: what one row does to the session and counters
CustomerRowStep(row, st) ==
    CustomerChecked(clean_string(row.customer_name),
                    normalize_mobile_number(row.mobile_number),
                    clean_string(row.region), st)

RECURSIVE CustomerLoop(_, _, _)
CustomerLoop(rows, i, st) ==
    IF i > Len(rows) THEN st
    ELSE CustomerLoop(rows, i + 1, CustomerRowStep(rows[i], st))

\* exc is the exception that left the loop ("" when none did); order_id_bound
\* tells whether the local variable order_id has been assigned
LoopStart ==
    [session |-> get_session, loaded |-> 0, skipped |-> 0, exc |-> "",
     order_id_bound |-> FALSE]

\* the row loops read no table, so their outcome is a function of the file
CustomerLoopTable == [csv \in CsvFiles |-> CustomerLoop(csv.rows, 1, LoopStart)]

CustomerLoopOf(csv) == CustomerLoopTable[csv]

\* the result of a load call: raised/exc, the value returned, the skip
\* counter at the end, and the store before and after
CallResult(file, raised, exc, st, pre, post) ==
    [called |-> TRUE, file |-> file, raised |-> raised, exc |-> exc,
     loaded |-> st.loaded, skipped |-> st.skipped, pre |-> pre, post |-> post,
     session |-> session_close(st.session)]

\* a missing path taken for a file without rows: the call returns 0
FileNotFound_SilentSkip(file, d) ==
    [called |-> TRUE, file |-> file, raised |-> FALSE, exc |-> "",
     loaded |-> 0, skipped |-> 0, pre |-> d, post |-> d, session |-> NoSession]

\* if not Path(path).exists(): raise FileNotFoundError, before get_session
FileNotFound(file, d) ==
    [called |-> TRUE, file |-> file, raised |-> TRUE, exc |-> "FileNotFoundError",
     loaded |-> 0, skipped |-> 0, pre |-> d, post |-> d, session |-> NoSession]

\* the call after commit(): raised when the commit failed
AfterCommit(file, st, d, c) == CallResult(file, ~c.ok, c.exc, st, d, c.db)

CustomersLoaded(d, csv, db_error, st) ==
    IF csv.read_error
    THEN CallResult(csv, TRUE, "UnicodeDecodeError", st, d, d)
    ELSE AfterCommit(csv, st, d, session_commit(d, st.session, db_error))

load_customers_from_csv(d, csv, db_error) ==
    IF ~csv.exists THEN FileNotFound(csv, d)
    ELSE CustomersLoaded(d, csv, db_error, CustomerLoopOf(csv))

(***************************************************************************)
(* DataLoader.load_orders_from_xml                                         *)
(***************************************************************************)
OrderRequired == <<"order_id", "mobile_number", "order_date_time", "sku_id">>

\* the loop body without the test for order_id 0
OrderChecked_NoZeroCheck(order_id, mobile_number, order_date_time, sku_id, sku_count, total_amount, st) ==
    IF order_id.t = "raise"
    THEN IF st.order_id_bound
         THEN [st EXCEPT !.session = session_rollback(@), !.skipped = @ + 1]
         ELSE [st EXCEPT !.session = session_rollback(@), !.exc = "UnboundLocalError"]
    ELSE IF sku_count.t = "raise"
    THEN [st EXCEPT !.session = session_rollback(@), !.skipped = @ + 1,
                    !.order_id_bound = TRUE]
    ELSE IF ~validate_required_fields(
                 [order_id |-> order_id, mobile_number |-> mobile_number,
                  order_date_time |-> order_date_time, sku_id |-> sku_id],
                 OrderRequired).is_valid
    THEN [st EXCEPT !.skipped = @ + 1, !.order_id_bound = TRUE]
    ELSE [st EXCEPT !.session = session_add(@, Order(order_id, mobile_number,
                                    order_date_time, sku_id, sku_count, total_amount)),
                    !.loaded = @ + 1, !.order_id_bound = TRUE]

\* the loop body after the normalization of the six children.  A raise of
\* safe_int is caught by except Exception: session.rollback(), then the log
\* message reads order_id, which is unbound when no element before assigned it
OrderChecked(order_id, mobile_number, order_date_time, sku_id, sku_count, total_amount, st) ==
    IF order_id.t = "raise"
    THEN IF st.order_id_bound
         THEN [st EXCEPT !.session = session_rollback(@), !.skipped = @ + 1]
         ELSE [st EXCEPT !.session = session_rollback(@), !.exc = "UnboundLocalError"]
    ELSE IF sku_count.t = "raise"
    THEN [st EXCEPT !.session = session_rollback(@), !.skipped = @ + 1,
                    !.order_id_bound = TRUE]
    ELSE IF \/ ~validate_required_fields(
                    [order_id |-> order_id, mobile_number |-> mobile_number,
                     order_date_time |-> order_date_time, sku_id |-> sku_id],
                    OrderRequired).is_valid
            \/ order_id.v = 0
    THEN [st EXCEPT !.skipped = @ + 1, !.order_id_bound = TRUE]
    ELSE [st EXCEPT !.session = session_add(@, Order(order_id, mobile_number,
                                    order_date_time, sku_id, sku_count, total_amount)),
                    !.loaded = @ + 1, !.order_id_bound = TRUE]

\* the body of the element loop: what one <order> does to the session and counters
OrderRowStep(order_elem, st) ==
    OrderChecked(safe_int(ElemText(order_elem, "order_id"), PyInt(0)),
                 normalize_mobile_number(ElemText(order_elem, "mobile_number")),
                 normalize_date(ElemText(order_elem, "order_date_time")),
                 clean_string(ElemText(order_elem, "sku_id")),
                 safe_int(ElemText(order_elem, "sku_count"), PyInt(0)),
                 safe_float(ElemText(order_elem, "total_amount"), PyFloat("fin", 0)), st)

RECURSIVE OrderLoop(_, _, _)
OrderLoop(elems, i, st) ==
    IF i > Len(elems) \/ st.exc # "" THEN st
    ELSE OrderLoop(elems, i + 1, OrderRowStep(elems[i], st))

OrderLoopTable == [xml \in XmlFiles |-> OrderLoop(xml.orders, 1, LoopStart)]

OrderLoopOf(xml) == OrderLoopTable[xml]

OrdersLoaded(d, xml, db_error, st) ==
    IF xml.malformed
    THEN CallResult(xml, TRUE, "ParseError", LoopStart, d, d)
    ELSE IF st.exc # "" THEN CallResult(xml, TRUE, st.exc, st, d, d)
    ELSE AfterCommit(xml, st, d, session_commit(d, st.session, db_error))

load_orders_from_xml(d, xml, db_error) ==
    IF ~xml.exists THEN FileNotFound(xml, d)
    ELSE OrdersLoaded(d, xml, db_error, OrderLoopOf(xml))

(***************************************************************************)
(* DataLoader.load_all_data: the customers file, then the orders file      *)
(***************************************************************************)
NoCall ==
    [called |-> FALSE, file |-> <<>>, raised |-> FALSE, exc |-> "", loaded |-> 0,
     skipped |-> 0, pre |-> EmptyDb, post |-> EmptyDb, session |-> NoSession]

\* both loads as one transaction: the exception of the second undoes the first
AllLoaded_OneTransaction(c, o) == [c |-> c, o |-> o, raised |-> o.raised, db |-> IF o.raised THEN c.pre ELSE o.post]

\* the summary after both calls, or the exception of the second
AllLoaded(c, o) == [c |-> c, o |-> o, raised |-> o.raised, db |-> o.post]

\* the exception of the first call leaves load_all_data
AfterCustomers(c, xml, xml_db_error) ==
    IF c.raised THEN [c |-> c, o |-> NoCall, raised |-> TRUE, db |-> c.post]
    ELSE AllLoaded(c, load_orders_from_xml(c.post, xml, xml_db_error))

load_all_data(d, csv, xml, csv_db_error, xml_db_error) ==
    AfterCustomers(load_customers_from_csv(d, csv, csv_db_error), xml, xml_db_error)

(***************************************************************************)
(* Helpers for frames (sequences of rows) and result sets                  *)
(***************************************************************************)
Range(f) == {f[i] : i \in DOMAIN f}

RECURSIVE SetToSeq(_)
SetToSeq(S) ==
    IF S = {} THEN <<>>
    ELSE LET e == CHOOSE e \in S : TRUE IN <<e>> \o SetToSeq(S \ {e})

RECURSIVE Concat(_)
Concat(parts) == IF parts = <<>> THEN <<>> ELSE Head(parts) \o Concat(Tail(parts))

MapSeq(f(_), q) == [i \in 1..Len(q) |-> f(q[i])]

\* the rows of q in every order
Orderings(q) ==
    {[i \in 1..Len(q) |-> q[p[i]]] : p \in Permutations(1..Len(q))}

\* what a sort by the order Leq may return: any ordering of the rows that
\* respects it (the order of ties is not fixed)
SortedOutputs(q, Leq(_, _)) ==
    {out \in Orderings(q) : \A i, j \in 1..Len(out) : i < j => Leq(out[i], out[j])}

\* sum of the finite amounts of a sequence of floats, in mills; a NaN is
\* skipped, as pandas sum and mean do
RECURSIVE SumMills(_)
SumMills(amounts) ==
    IF amounts = <<>> THEN 0
    ELSE (IF Head(amounts).k = "fin" THEN Head(amounts).m ELSE 0) + SumMills(Tail(amounts))

CountValid(amounts) == Len(SelectSeq(amounts, LAMBDA a : a.k # "nan"))

\* a / b rounded to an integer, ties to even (b > 0)
RoundDiv(a, b) ==
    LET q == a \div b
        r == a - q * b
    IN  IF 2 * r > b THEN q + 1
        ELSE IF 2 * r = b THEN (IF q % 2 = 0 THEN q ELSE q + 1)
        ELSE q

\* round(x, 2) of an amount in mills
Round2(m) == 10 * RoundDiv(m, 10)

\* round(sum / n, 2)
Round2Mean(sum, n) == 10 * RoundDiv(sum, 10 * n)

(***************************************************************************)
(* PandasAnalytics.load_customers_from_csv / load_orders_from_xml          *)
(***************************************************************************)
\* texts pd.read_csv turns into NaN (a part of its default na_values)
PandasNaTexts ==
    { <<>>, <<"N", "A">>, <<"n", "a", "n">>, <<"N", "a", "N">>, <<"n", "u", "l", "l">>,
      <<"N", "U", "L", "L">>, <<"N", "o", "n", "e">>, <<"N", "/", "A">> }

\* a cell of pd.read_csv(csv_path, dtype=str)
ReadCsvCell(cell) ==
    IF cell.t = "NoneType" \/ cell.v \in PandasNaTexts THEN PyNaN ELSE cell

\* dropna: None and NaN are missing
IsNa(x) == x.t = "NoneType" \/ (x.t = "float" /\ x.v.k = "nan")

PdCustomerRow(row) ==
    [customer_name |-> clean_string(ReadCsvCell(row.customer_name)),
     mobile_number |-> normalize_mobile_number(ReadCsvCell(row.mobile_number)),
     region |-> clean_string(ReadCsvCell(row.region))]

Payload(r) == [f \in DOMAIN r |-> r[f].v]

\* the frame stored in df_customers
PdCustomersFrame(csv) ==
    LET df == MapSeq(PdCustomerRow, csv.rows)
        kept == SelectSeq(df, LAMBDA r : ~IsNa(r.customer_name) /\ ~IsNa(r.mobile_number)
                                          /\ ~IsNa(r.region))
    IN  MapSeq(Payload, kept)

pandas_load_customers_from_csv(csv) ==
    IF ~csv.exists THEN [raised |-> TRUE, exc |-> "FileNotFoundError", df |-> <<>>]
    ELSE IF csv.read_error THEN [raised |-> TRUE, exc |-> "UnicodeDecodeError", df |-> <<>>]
    ELSE [raised |-> FALSE, exc |-> "", df |-> PdCustomersFrame(csv)]

OrderColumns ==
    <<"order_id", "mobile_number", "order_date_time", "sku_id", "sku_count", "total_amount">>

\* pd.DataFrame(orders_data): a column exists when some element has the child;
\* a cell of an element without the child is NaN
HasColumn(xml, col) == \E i \in 1..Len(xml.orders) : xml.orders[i][col].t # "absent"

FrameCell(order_elem, col) ==
    IF order_elem[col].t = "absent" THEN PyNaN ELSE order_elem[col]

PdOrderRow(order_elem) ==
    [order_id |-> safe_int(FrameCell(order_elem, "order_id"), PyInt(0)),
     mobile_number |-> normalize_mobile_number(FrameCell(order_elem, "mobile_number")),
     order_date_time |-> normalize_date(FrameCell(order_elem, "order_date_time")),
     sku_id |-> clean_string(FrameCell(order_elem, "sku_id")),
     sku_count |-> safe_int(FrameCell(order_elem, "sku_count"), PyInt(0)),
     total_amount |-> safe_float(FrameCell(order_elem, "total_amount"), PyFloat("fin", 0))]

\* dropna(subset=[...]) and df[df['order_id'] != 0]
KeepOrderRow(r) ==
    /\ ~IsNa(r.order_id) /\ ~IsNa(r.mobile_number) /\ ~IsNa(r.order_date_time)
    /\ ~IsNa(r.sku_id)
    /\ r.order_id.v # 0

ApplyRaises(df) ==
    \E i \in 1..Len(df) : df[i].order_id.t = "raise" \/ df[i].sku_count.t = "raise"

\* the frame after the six apply() calls; the rows do not depend on each other
AppliedTable == [xml \in XmlFiles |-> MapSeq(PdOrderRow, xml.orders)]

Applied(xml) == AppliedTable[xml]

\* the frame stored in df_orders, for the rows first..last of the file
PdOrdersFrame(xml, first, last_row) ==
    MapSeq(Payload, SelectSeq(SubSeq(Applied(xml), first, last_row), KeepOrderRow))

pandas_load_orders_from_xml(xml) ==
    IF ~xml.exists THEN [raised |-> TRUE, exc |-> "FileNotFoundError", df |-> <<>>]
    ELSE IF xml.malformed THEN [raised |-> TRUE, exc |-> "ParseError", df |-> <<>>]
    ELSE IF \E k \in 1..Len(OrderColumns) : ~HasColumn(xml, OrderColumns[k])
    THEN [raised |-> TRUE, exc |-> "KeyError", df |-> <<>>]
    ELSE IF ApplyRaises(Applied(xml))
    THEN [raised |-> TRUE, exc |-> "OverflowError", df |-> <<>>]
    ELSE [raised |-> FALSE, exc |-> "", df |-> PdOrdersFrame(xml, 1, Len(xml.orders))]

PdCustomersTable == [csv \in CsvPaths |-> pandas_load_customers_from_csv(csv)]

PdOrdersTable == [xml \in XmlPaths |-> pandas_load_orders_from_xml(xml)]

(***************************************************************************)
(* DaskAnalytics.load_customers_from_csv / load_orders_from_xml.  The      *)
(* frames are lazy: the normalizers run when a KPI calls compute(), so an  *)
(* exception of theirs is raised there (compute_exc).  The orders frame    *)
(* is cut in two partitions at position split.                             *)
(***************************************************************************)
dask_load_customers_from_csv(csv) ==
    IF ~csv.exists
    THEN [raised |-> TRUE, exc |-> "FileNotFoundError", compute_exc |-> "", parts |-> <<>>]
    ELSE IF csv.read_error
    THEN [raised |-> TRUE, exc |-> "UnicodeDecodeError", compute_exc |-> "", parts |-> <<>>]
    ELSE [raised |-> FALSE, exc |-> "", compute_exc |-> "",
          parts |-> <<PdCustomersTable[csv].df>>]

dask_load_orders_from_xml(xml, split) ==
    IF ~xml.exists
    THEN [raised |-> TRUE, exc |-> "FileNotFoundError", compute_exc |-> "", parts |-> <<>>]
    ELSE IF xml.malformed
    THEN [raised |-> TRUE, exc |-> "ParseError", compute_exc |-> "", parts |-> <<>>]
    ELSE IF \E k \in 1..Len(OrderColumns) : ~HasColumn(xml, OrderColumns[k])
    THEN [raised |-> TRUE, exc |-> "KeyError", compute_exc |-> "", parts |-> <<>>]
    ELSE IF ApplyRaises(Applied(xml))
    THEN [raised |-> FALSE, exc |-> "", compute_exc |-> "OverflowError", parts |-> <<>>]
    ELSE [raised |-> FALSE, exc |-> "", compute_exc |-> "",
          parts |-> <<PdOrdersFrame(xml, 1, split),
                      PdOrdersFrame(xml, split + 1, Len(xml.orders))>>]

(***************************************************************************)
(* KPI 1, repeat customers                                                 *)
(***************************************************************************)
\* SQLAnalytics.get_repeat_customers: customers JOIN orders ON mobile_number,
\* GROUP BY the customer columns, HAVING count(order_id) > 1
SqlOrderCount(d, c) == Cardinality({o \in d.orders : o.mobile_number = c.mobile_number})

\* the query with HAVING count(order_id) >= 1
SqlRepeatRows_HavingAtLeastOne(d) ==
    {[customer_id |-> c.customer_id, customer_name |-> c.customer_name,
      mobile_number |-> c.mobile_number, region |-> c.region,
      order_count |-> SqlOrderCount(d, c)] : c \in {x \in d.customers : SqlOrderCount(d, x) >= 1}}

SqlRepeatRows(d) ==
    {[customer_id |-> c.customer_id, customer_name |-> c.customer_name,
      mobile_number |-> c.mobile_number, region |-> c.region,
      order_count |-> SqlOrderCount(d, c)] : c \in {x \in d.customers : SqlOrderCount(d, x) > 1}}

\* ORDER BY order_count DESC / sort_values('order_count', ascending=False)
ByOrderCountDesc(a, b) == a.order_count >= b.order_count

\* df_orders.groupby('mobile_number').size()
GroupSize(df_orders, mobile) == Len(SelectSeq(df_orders, LAMBDA o : o.mobile_number = mobile))

\* df_customers.merge(repeat_order_counts, on='mobile_number', how='inner'):
\* every customer row whose mobile_number has a count above 1, in frame order
MergeCounts(df_customers, SizeOf(_)) ==
    MapSeq(LAMBDA c : [customer_name |-> c.customer_name, mobile_number |-> c.mobile_number,
                       region |-> c.region, order_count |-> SizeOf(c.mobile_number)],
           SelectSeq(df_customers, LAMBDA c : SizeOf(c.mobile_number) > 1))

\* PandasAnalytics.get_repeat_customers, before the sort
PdRepeatRows(df_customers, df_orders) ==
    MergeCounts(df_customers, LAMBDA mobile : GroupSize(df_orders, mobile))

\* dask groupby().size(): the sizes of the partitions are added up
RECURSIVE DaskGroupSize(_, _)
DaskGroupSize(parts, mobile) ==
    IF parts = <<>> THEN 0
    ELSE GroupSize(Head(parts), mobile) + DaskGroupSize(Tail(parts), mobile)

\* the counts of the first partition alone, not added to those of the others
DaskRepeatRows_FirstPartitionCounts(customer_parts, order_parts) ==
    MergeCounts(Concat(customer_parts),
                LAMBDA mobile : IF order_parts = <<>> THEN 0
                                ELSE GroupSize(Head(order_parts), mobile))

\* DaskAnalytics.get_repeat_customers, before the sort
DaskRepeatRows(customer_parts, order_parts) ==
    MergeCounts(Concat(customer_parts), LAMBDA mobile : DaskGroupSize(order_parts, mobile))

(***************************************************************************)
(* KPI 2, monthly order trends                                             *)
(***************************************************************************)
YearMonth(o) == <<o.order_date_time.year, o.order_date_time.month>>

\* round(r.total_revenue, 2) if r.total_revenue else 0
SqlRound(m) == IF m # 0 THEN Round2(m) ELSE 0

AmountsOf(rows) == MapSeq(LAMBDA o : o.total_amount, rows)

\* the query over orders JOIN customers: an Order of no Customer is left out
SqlMonthlyRows_InnerJoin(d) ==
    LET joined == {o \in d.orders : \E c \in d.customers : c.mobile_number = o.mobile_number}
    IN  {[year |-> ym[1], month |-> ym[2],
          order_count |-> Cardinality({o \in joined : YearMonth(o) = ym}),
          total_revenue |-> SqlRound(SumMills(AmountsOf(SetToSeq({o \in joined : YearMonth(o) = ym}))))]
         : ym \in {YearMonth(o) : o \in joined}}

\* SQLAnalytics.get_monthly_order_trends: GROUP BY year, month
SqlMonthlyRows(d) ==
    {[year |-> ym[1], month |-> ym[2],
      order_count |-> Cardinality({o \in d.orders : YearMonth(o) = ym}),
      total_revenue |-> SqlRound(SumMills(AmountsOf(SetToSeq({o \in d.orders : YearMonth(o) = ym}))))]
     : ym \in {YearMonth(o) : o \in d.orders}}

\* ORDER BY year, month / sort_values(['year', 'month'])
ByYearMonth(a, b) == a.year < b.year \/ (a.year = b.year /\ a.month <= b.month)

\* PandasAnalytics.get_monthly_order_trends, before the sort
PdMonthlyRows(df_orders) ==
    SetToSeq({[year |-> ym[1], month |-> ym[2],
               order_count |-> Len(SelectSeq(df_orders, LAMBDA o : YearMonth(o) = ym)),
               total_revenue |-> Round2(SumMills(AmountsOf(
                                     SelectSeq(df_orders, LAMBDA o : YearMonth(o) = ym))))]
              : ym \in {YearMonth(o) : o \in Range(df_orders)}})

\* DaskAnalytics.get_monthly_order_trends: compute(), then the pandas steps
DaskMonthlyRows(order_parts) == PdMonthlyRows(Concat(order_parts))

(***************************************************************************)
(* KPI 3, regional revenue                                                 *)
(***************************************************************************)
\* customers JOIN orders ON mobile_number
SqlJoin(d) == {<<c, o>> \in d.customers \X d.orders : c.mobile_number = o.mobile_number}

RegionRow(region, customer_count, amounts, sum_round(_)) ==
    [region |-> region, customer_count |-> customer_count, order_count |-> Len(amounts),
     total_revenue |-> sum_round(SumMills(amounts)),
     avg_order_value |-> IF CountValid(amounts) = 0 THEN 0
                         ELSE Round2Mean(SumMills(amounts), CountValid(amounts))]

\* the query with count(customer_id) in place of count(distinct customer_id)
SqlRegionalRows_CountJoinedRows(d) ==
    {RegionRow(region,
               Cardinality({q \in SqlJoin(d) : q[1].region = region}),
               MapSeq(LAMBDA p : p[2].total_amount,
                      SetToSeq({q \in SqlJoin(d) : q[1].region = region})),
               SqlRound)
     : region \in {p[1].region : p \in SqlJoin(d)}}

\* SQLAnalytics.get_regional_revenue: GROUP BY region,
\* count(distinct customer_id), count(order_id), sum, avg
SqlRegionalRows(d) ==
    {RegionRow(region,
               Cardinality({p[1].customer_id : p \in {q \in SqlJoin(d) : q[1].region = region}}),
               MapSeq(LAMBDA p : p[2].total_amount,
                      SetToSeq({q \in SqlJoin(d) : q[1].region = region})),
               SqlRound)
     : region \in {p[1].region : p \in SqlJoin(d)}}

\* ORDER BY total_revenue DESC / sort_values('total_revenue', ascending=False)
ByRevenueDesc(a, b) == a.total_revenue >= b.total_revenue

\* df_orders.merge(df_customers[['mobile_number', 'region']], how='inner'):
\* one row for every pair of an order and a customer row with its mobile_number
PdMerge(df_customers, df_orders) ==
    SetToSeq({<<i, j>> \in (1..Len(df_orders)) \X (1..Len(df_customers)) :
                 df_orders[i].mobile_number = df_customers[j].mobile_number})

\* PandasAnalytics.get_regional_revenue, before the sort: groupby('region'),
\* nunique of mobile_number, count of order_id, sum and mean of total_amount
PdRegionalRows(df_customers, df_orders) ==
    LET merged == PdMerge(df_customers, df_orders)
        InRegion(region) == SelectSeq(merged, LAMBDA p : df_customers[p[2]].region = region)
    IN  SetToSeq({RegionRow(region,
                            Cardinality({df_orders[p[1]].mobile_number : p \in Range(InRegion(region))}),
                            MapSeq(LAMBDA p : df_orders[p[1]].total_amount, InRegion(region)),
                            Round2)
                  : region \in {df_customers[p[2]].region : p \in Range(merged)}})

\* DaskAnalytics.get_regional_revenue: compute(), then the pandas steps
DaskRegionalRows(customer_parts, order_parts) ==
    PdRegionalRows(Concat(customer_parts), Concat(order_parts))

(***************************************************************************)
(* KPI 4, top spenders of the last days days.  now is datetime.now() at    *)
(* the call.                                                               *)
(***************************************************************************)
\* days of the months before month m of year y
RECURSIVE DaysBeforeMonth(_, _)
DaysBeforeMonth(y, m) ==
    IF m <= 1 THEN 0 ELSE DaysInMonth(y, m - 1) + DaysBeforeMonth(y, m - 1)

\* date.toordinal(): day 1 is 0001-01-01
Ordinal(d) ==
    365 * (d.year - 1) + ((d.year - 1) \div 4) - ((d.year - 1) \div 100)
      + ((d.year - 1) \div 400) + DaysBeforeMonth(d.year, d.month) + d.day

SecondOfDay(d) == 3600 * d.hour + 60 * d.minute + d.second

\* order_date_time >= cutoff_date, where cutoff_date = now - timedelta(days=days)
OnOrAfterCutoff(dt, now, days) ==
    \/ Ordinal(dt) + days > Ordinal(now)
    \/ /\ Ordinal(dt) + days = Ordinal(now)
       /\ \/ SecondOfDay(dt) > SecondOfDay(now)
          \/ /\ SecondOfDay(dt) = SecondOfDay(now)
             /\ dt.microsecond >= now.microsecond

DateOf(o) == <<o.order_date_time.year, o.order_date_time.month, o.order_date_time.day>>

DateLeq(a, b) ==
    \/ a[1] < b[1]
    \/ a[1] = b[1] /\ a[2] < b[2]
    \/ a[1] = b[1] /\ a[2] = b[2] /\ a[3] <= b[3]

\* max(order_date_time).strftime('%Y-%m-%d'), as <<year, month, day>>
LastOrderDate(rows) ==
    CHOOSE x \in {DateOf(o) : o \in Range(rows)} :
        \A o \in Range(rows) : DateLeq(DateOf(o), x)

\* the aggregates of the orders rows of one customer; sum is the unrounded
\* sum the query sorts by
SpenderRow(c, rows) ==
    [customer_name |-> c.customer_name, mobile_number |-> c.mobile_number,
     region |-> c.region, order_count |-> Len(rows), sum |-> SumMills(AmountsOf(rows)),
     total_spent |-> Round2(SumMills(AmountsOf(rows))),
     avg_order_value |-> IF CountValid(AmountsOf(rows)) = 0 THEN 0
                         ELSE Round2Mean(SumMills(AmountsOf(rows)), CountValid(AmountsOf(rows))),
     last_order_date |-> LastOrderDate(rows)]

\* the orders of customer c the query without the filter on order_date_time joins
SqlOrdersOf(d, c) == SetToSeq({o \in d.orders : o.mobile_number = c.mobile_number})

\* the orders of customer c that pass the filter
SqlRecentOrdersOf(d, c, now, days) ==
    SetToSeq({o \in d.orders : /\ o.mobile_number = c.mobile_number
                               /\ OnOrAfterCutoff(o.order_date_time, now, days)})

\* the query without the filter on order_date_time
SqlTopRows_NoCutoff(d, now, days) ==
    {SpenderRow(c, SqlOrdersOf(d, c)) : c \in {x \in d.customers : SqlOrdersOf(d, x) # <<>>}}

\* SQLAnalytics.get_top_spenders: customers JOIN orders ON mobile_number,
\* WHERE order_date_time >= cutoff_date, GROUP BY the customer columns
SqlTopRows(d, now, days) ==
    {SpenderRow(c, SqlRecentOrdersOf(d, c, now, days))
     : c \in {x \in d.customers : SqlRecentOrdersOf(d, x, now, days) # <<>>}}

\* ORDER BY total_spent DESC: the order of the unrounded sums
BySumDesc(a, b) == a.sum >= b.sum

\* sort_values('total_spent', ascending=False), after round(2)
ByTotalSpentDesc(a, b) == a.total_spent >= b.total_spent

\* LIMIT limit / head(limit), for limit >= 0
FirstRows(out, limit) == SubSeq(out, 1, IF limit < Len(out) THEN limit ELSE Len(out))

\* the columns of a returned row (the SQL rows carry customer_id as well,
\* which names the same customer as the unique mobile_number)
TopRow(r) ==
    [customer_name |-> r.customer_name, mobile_number |-> r.mobile_number,
     region |-> r.region, order_count |-> r.order_count, total_spent |-> r.total_spent,
     avg_order_value |-> r.avg_order_value, last_order_date |-> r.last_order_date]

\* df_orders[df_orders['order_date_time'] >= cutoff_date]
RecentOrders(df_orders, now, days) ==
    SelectSeq(df_orders, LAMBDA o : OnOrAfterCutoff(o.order_date_time, now, days))

OrdersOfCustomer(recent_orders, c) ==
    SelectSeq(recent_orders, LAMBDA o : o.mobile_number = c.mobile_number)

\* df_customers.merge(spenders, on='mobile_number', how='inner'): every
\* customer row whose mobile_number has a recent order, in frame order
PdMergeSpenders(df_customers, recent_orders) ==
    MapSeq(LAMBDA c : SpenderRow(c, OrdersOfCustomer(recent_orders, c)),
           SelectSeq(df_customers, LAMBDA c : OrdersOfCustomer(recent_orders, c) # <<>>))

\* PandasAnalytics.get_top_spenders, before the sort and head(limit)
PdTopRows(df_customers, df_orders, now, days) ==
    PdMergeSpenders(df_customers, RecentOrders(df_orders, now, days))

\* DaskAnalytics.get_top_spenders: compute(), then the pandas steps
DaskTopRows(customer_parts, order_parts, now, days) ==
    PdTopRows(Concat(customer_parts), Concat(order_parts), now, days)

(***************************************************************************)
(* State                                                                   *)
(***************************************************************************)
VARIABLES
    customers,            \* the committed rows of table customers
    orders,               \* the committed rows of table orders
    next_customer_id,     \* AUTO_INCREMENT of customers.customer_id
    csv_loaded,           \* <<file>>: the CSV of the last load_customers_from_csv
                          \* that returned since the last reset; <<>> when none
    last,                 \* the last store operation and the result of its calls
    calls,                \* number of store operations run
    fs,                   \* the files at Config.CUSTOMERS_CSV_PATH and ORDERS_XML_PATH
    pandas_df_customers,  \* PandasAnalytics.df_customers
    pandas_df_orders,     \* PandasAnalytics.df_orders
    dask_df_customers,    \* DaskAnalytics.df_customers
    dask_df_orders,       \* DaskAnalytics.df_orders
    kpi,                  \* the last KPI call and what it returned
    open_sessions,        \* number of Sessions opened and not closed
    flow,                 \* the run of daily_ingestion_flow
    norm                  \* the last call of a normalizer and what it did

storeVars == <<customers, orders, next_customer_id, csv_loaded, last, calls>>

pandasVars == <<pandas_df_customers, pandas_df_orders>>

daskVars == <<dask_df_customers, dask_df_orders>>

vars == <<storeVars, fs, pandasVars, daskVars, kpi, open_sessions, flow, norm>>

MaxCalls == 2

Db == [customers |-> customers, orders |-> orders, next_customer_id |-> next_customer_id]

SetDb(d) ==
    /\ customers' = d.customers
    /\ orders' = d.orders
    /\ next_customer_id' = d.next_customer_id

\* a frame attribute that is still None
NoFrame == [loaded |-> FALSE, rows |-> <<>>]

NoDaskFrame == [loaded |-> FALSE, compute_exc |-> "", parts |-> <<>>]

\* the arguments of a KPI call without arguments
NoArgs == [now |-> StrptimeDefaults, days |-> 0, limit |-> 0]

NoKpi ==
    [backend |-> "", name |-> "", args |-> NoArgs, repeated |-> FALSE, raised |-> FALSE,
     exc |-> "", rows |-> <<>>, session |-> NoSession]

\* no run of the flow
NoFlow ==
    [pc |-> "idle", incoming |-> <<>>, new_files |-> <<>>, i |-> 0, is_valid |-> FALSE,
     trace |-> <<>>, results |-> <<>>, rejects |-> {}, now |-> 0, attempts |-> 0,
     exc |-> ""]

\* no call of a normalizer
NoNorm == [fn |-> "", value |-> PyNone, default |-> PyNone, out |-> PyNone, again |-> FALSE]

InitState ==
    /\ customers = {}
    /\ orders = {}
    /\ next_customer_id = 1
    /\ csv_loaded = <<>>
    /\ last = [op |-> "init", raised |-> FALSE, c |-> NoCall, o |-> NoCall, prev |-> <<>>]
    /\ calls = 0
    /\ pandas_df_customers = NoFrame
    /\ pandas_df_orders = NoFrame
    /\ dask_df_customers = NoDaskFrame
    /\ dask_df_orders = NoDaskFrame
    /\ kpi = NoKpi
    /\ open_sessions = 0
    /\ norm = NoNorm

Init ==
    /\ InitState
    /\ flow = NoFlow
    /\ fs = [csv |-> Csv(<<>>), xml |-> Xml(<<>>)]

(***************************************************************************)
(* Store operations, on any of the files                                   *)
(***************************************************************************)
LoadCustomersFromCsv ==
    /\ calls < MaxCalls
    /\ \E csv \in CsvPaths, db_error \in BOOLEAN :
         \E c \in {load_customers_from_csv(Db, csv, db_error)} :
             /\ SetDb(c.post)
             /\ csv_loaded' = IF c.raised THEN csv_loaded ELSE <<csv>>
             /\ last' = [op |-> "load_customers_from_csv", raised |-> c.raised,
                         c |-> c, o |-> NoCall, prev |-> csv_loaded]
             /\ open_sessions' = open_sessions + OpenCount(c.session)
    /\ calls' = calls + 1
    /\ UNCHANGED <<fs, flow, norm, pandasVars, daskVars, kpi>>

LoadOrdersFromXml ==
    /\ calls < MaxCalls
    /\ \E xml \in XmlPaths, db_error \in BOOLEAN :
         \E o \in {load_orders_from_xml(Db, xml, db_error)} :
             /\ SetDb(o.post)
             /\ last' = [op |-> "load_orders_from_xml", raised |-> o.raised,
                         c |-> NoCall, o |-> o, prev |-> csv_loaded]
             /\ open_sessions' = open_sessions + OpenCount(o.session)
    /\ calls' = calls + 1
    /\ UNCHANGED <<csv_loaded, fs, flow, norm, pandasVars, daskVars, kpi>>

LoadAllData ==
    /\ calls < MaxCalls
    /\ \E csv \in CsvPaths, xml \in XmlPaths, csv_db_error, xml_db_error \in BOOLEAN :
         \E r \in {load_all_data(Db, csv, xml, csv_db_error, xml_db_error)} :
             /\ SetDb(r.db)
             /\ csv_loaded' = IF r.c.raised THEN csv_loaded ELSE <<csv>>
             /\ last' = [op |-> "load_all_data", raised |-> r.raised,
                         c |-> r.c, o |-> r.o, prev |-> csv_loaded]
             /\ open_sessions' = open_sessions + OpenCount(r.c.session) + OpenCount(r.o.session)
    /\ calls' = calls + 1
    /\ UNCHANGED <<fs, flow, norm, pandasVars, daskVars, kpi>>

ResetDatabase ==
    /\ calls < MaxCalls
    /\ SetDb(reset_database_db)
    /\ csv_loaded' = <<>>
    /\ last' = [op |-> "reset_database", raised |-> FALSE, c |-> NoCall, o |-> NoCall,
                prev |-> csv_loaded]
    /\ calls' = calls + 1
    /\ UNCHANGED <<fs, flow, norm, open_sessions, pandasVars, daskVars, kpi>>

Next ==
    \/ LoadCustomersFromCsv
    \/ LoadOrdersFromXml
    \/ LoadAllData
    \/ ResetDatabase

Spec == Init /\ [][Next]_vars

(***************************************************************************)
(* The analytics runs of main.py on the files at the configured paths      *)
(***************************************************************************)
InitKpi ==
    /\ InitState
    /\ flow = NoFlow
    /\ fs \in [csv : CsvFiles, xml : XmlFiles]

\* run_sql_approach: reset_database(), then load_all_data()
RunSqlLoad ==
    /\ \E r \in {load_all_data(reset_database_db, fs.csv, fs.xml, FALSE, FALSE)} :
           /\ SetDb(r.db)
           /\ csv_loaded' = IF r.c.raised THEN <<>> ELSE <<fs.csv>>
           /\ last' = [op |-> "load_all_data", raised |-> r.raised,
                       c |-> r.c, o |-> r.o, prev |-> <<>>]
           /\ open_sessions' = open_sessions + OpenCount(r.c.session) + OpenCount(r.o.session)
    /\ kpi' = NoKpi
    /\ UNCHANGED <<calls, fs, flow, norm, pandasVars, daskVars>>

\* PandasAnalytics.load_data
PandasLoadData ==
    /\ \E c \in {PdCustomersTable[fs.csv]}, o \in {PdOrdersTable[fs.xml]} :
           /\ pandas_df_customers' =
                 IF c.raised THEN pandas_df_customers ELSE [loaded |-> TRUE, rows |-> c.df]
           /\ pandas_df_orders' =
                 IF c.raised \/ o.raised THEN pandas_df_orders
                 ELSE [loaded |-> TRUE, rows |-> o.df]
    /\ kpi' = NoKpi
    /\ UNCHANGED <<storeVars, fs, flow, norm, open_sessions, daskVars>>

\* DaskAnalytics.load_data
DaskLoadData ==
    /\ \E split \in 0..Len(fs.xml.orders) :
         \E c \in {dask_load_customers_from_csv(fs.csv)},
            o \in {dask_load_orders_from_xml(fs.xml, split)} :
             /\ dask_df_customers' =
                   IF c.raised THEN dask_df_customers
                   ELSE [loaded |-> TRUE, compute_exc |-> c.compute_exc, parts |-> c.parts]
             /\ dask_df_orders' =
                   IF c.raised \/ o.raised THEN dask_df_orders
                   ELSE [loaded |-> TRUE, compute_exc |-> o.compute_exc, parts |-> o.parts]
    /\ kpi' = NoKpi
    /\ UNCHANGED <<storeVars, fs, flow, norm, open_sessions, pandasVars>>

\* the call is the call before it made again (a load in between resets kpi);
\* a call the database failed is not a call to compare with
Repeats(backend, name, args) ==
    /\ kpi.backend = backend /\ kpi.name = name /\ kpi.args = args
    /\ kpi.exc # "OperationalError"

\* the Session of a KPI call when it has returned or raised: a method of
\* SQLAnalytics takes one from get_session and closes it in its finally
\* clause; the pandas and Dask methods have none
QuerySession(backend) == IF backend = "sql" THEN session_close(get_session) ELSE NoSession

KpiReturn(backend, name, out) ==
    kpi' = [backend |-> backend, name |-> name, args |-> NoArgs,
            repeated |-> Repeats(backend, name, NoArgs), raised |-> FALSE,
            exc |-> "", rows |-> out, session |-> QuerySession(backend)]

KpiRaise(backend, name, exc) ==
    kpi' = [backend |-> backend, name |-> name, args |-> NoArgs,
            repeated |-> exc # "OperationalError" /\ Repeats(backend, name, NoArgs),
            raised |-> TRUE,
            exc |-> exc, rows |-> <<>>, session |-> QuerySession(backend)]

\* get_top_spenders(days, limit) called at time now
TopArgs(now, days, limit) == [now |-> now, days |-> days, limit |-> limit]

TopReturn(backend, args, out) ==
    kpi' = [backend |-> backend, name |-> "top_spenders", args |-> args,
            repeated |-> Repeats(backend, "top_spenders", args), raised |-> FALSE,
            exc |-> "", rows |-> out, session |-> QuerySession(backend)]

TopRaise(backend, args, exc) ==
    kpi' = [backend |-> backend, name |-> "top_spenders", args |-> args,
            repeated |-> exc # "OperationalError" /\ Repeats(backend, "top_spenders", args),
            raised |-> TRUE,
            exc |-> exc, rows |-> <<>>, session |-> QuerySession(backend)]

SqlGetRepeatCustomers ==
    /\ \E db_error \in BOOLEAN :
         IF db_error THEN KpiRaise("sql", "repeat_customers", "OperationalError")
         ELSE \E out \in SortedOutputs(SetToSeq(SqlRepeatRows(Db)), ByOrderCountDesc) :
                 KpiReturn("sql", "repeat_customers", out)
    /\ open_sessions' = open_sessions + OpenCount(kpi'.session)
    /\ UNCHANGED <<storeVars, fs, flow, norm, pandasVars, daskVars>>

SqlGetMonthlyOrderTrends ==
    /\ \E db_error \in BOOLEAN :
         IF db_error THEN KpiRaise("sql", "monthly_order_trends", "OperationalError")
         ELSE \E out \in SortedOutputs(SetToSeq(SqlMonthlyRows(Db)), ByYearMonth) :
                 KpiReturn("sql", "monthly_order_trends", out)
    /\ open_sessions' = open_sessions + OpenCount(kpi'.session)
    /\ UNCHANGED <<storeVars, fs, flow, norm, pandasVars, daskVars>>

SqlGetRegionalRevenue ==
    /\ \E db_error \in BOOLEAN :
         IF db_error THEN KpiRaise("sql", "regional_revenue", "OperationalError")
         ELSE \E out \in SortedOutputs(SetToSeq(SqlRegionalRows(Db)), ByRevenueDesc) :
                 KpiReturn("sql", "regional_revenue", out)
    /\ open_sessions' = open_sessions + OpenCount(kpi'.session)
    /\ UNCHANGED <<storeVars, fs, flow, norm, pandasVars, daskVars>>

PandasGetRepeatCustomers ==
    /\ IF ~pandas_df_customers.loaded \/ ~pandas_df_orders.loaded
       THEN KpiRaise("pandas", "repeat_customers", "ValueError")
       ELSE \E out \in SortedOutputs(PdRepeatRows(pandas_df_customers.rows,
                                                  pandas_df_orders.rows), ByOrderCountDesc) :
              KpiReturn("pandas", "repeat_customers", out)
    /\ UNCHANGED <<storeVars, fs, flow, norm, open_sessions, pandasVars, daskVars>>

\* the frame with the columns year and month added
WithYearMonth(o) ==
    [f \in DOMAIN o \cup {"year", "month"} |->
        IF f = "year" THEN o.order_date_time.year
        ELSE IF f = "month" THEN o.order_date_time.month
        ELSE o[f]]

\* the call working on self.df_orders itself, without df_orders.copy()
PandasGetMonthlyOrderTrends_NoCopy ==
    /\ IF ~pandas_df_orders.loaded
       THEN /\ KpiRaise("pandas", "monthly_order_trends", "ValueError")
            /\ UNCHANGED pandas_df_orders
       ELSE /\ \E out \in SortedOutputs(PdMonthlyRows(pandas_df_orders.rows), ByYearMonth) :
                 KpiReturn("pandas", "monthly_order_trends", out)
            /\ pandas_df_orders' =
                  [pandas_df_orders EXCEPT !.rows = MapSeq(WithYearMonth, @)]
    /\ UNCHANGED <<storeVars, fs, flow, norm, open_sessions, pandas_df_customers, daskVars>>

PandasGetMonthlyOrderTrends ==
    /\ IF ~pandas_df_orders.loaded
       THEN KpiRaise("pandas", "monthly_order_trends", "ValueError")
       ELSE \E out \in SortedOutputs(PdMonthlyRows(pandas_df_orders.rows), ByYearMonth) :
              KpiReturn("pandas", "monthly_order_trends", out)
    /\ UNCHANGED <<storeVars, fs, flow, norm, open_sessions, pandasVars, daskVars>>

PandasGetRegionalRevenue ==
    /\ IF ~pandas_df_customers.loaded \/ ~pandas_df_orders.loaded
       THEN KpiRaise("pandas", "regional_revenue", "ValueError")
       ELSE \E out \in SortedOutputs(PdRegionalRows(pandas_df_customers.rows,
                                                    pandas_df_orders.rows), ByRevenueDesc) :
              KpiReturn("pandas", "regional_revenue", out)
    /\ UNCHANGED <<storeVars, fs, flow, norm, open_sessions, pandasVars, daskVars>>

DaskGetRepeatCustomers ==
    /\ IF ~dask_df_customers.loaded \/ ~dask_df_orders.loaded
       THEN KpiRaise("dask", "repeat_customers", "ValueError")
       ELSE IF dask_df_orders.compute_exc # ""
       THEN KpiRaise("dask", "repeat_customers", dask_df_orders.compute_exc)
       ELSE \E out \in SortedOutputs(DaskRepeatRows(dask_df_customers.parts,
                                                    dask_df_orders.parts), ByOrderCountDesc) :
              KpiReturn("dask", "repeat_customers", out)
    /\ UNCHANGED <<storeVars, fs, flow, norm, open_sessions, pandasVars, daskVars>>

DaskGetMonthlyOrderTrends ==
    /\ IF ~dask_df_orders.loaded
       THEN KpiRaise("dask", "monthly_order_trends", "ValueError")
       ELSE IF dask_df_orders.compute_exc # ""
       THEN KpiRaise("dask", "monthly_order_trends", dask_df_orders.compute_exc)
       ELSE \E out \in SortedOutputs(DaskMonthlyRows(dask_df_orders.parts), ByYearMonth) :
              KpiReturn("dask", "monthly_order_trends", out)
    /\ UNCHANGED <<storeVars, fs, flow, norm, open_sessions, pandasVars, daskVars>>

DaskGetRegionalRevenue ==
    /\ IF ~dask_df_customers.loaded \/ ~dask_df_orders.loaded
       THEN KpiRaise("dask", "regional_revenue", "ValueError")
       ELSE IF dask_df_orders.compute_exc # ""
       THEN KpiRaise("dask", "regional_revenue", dask_df_orders.compute_exc)
       ELSE \E out \in SortedOutputs(DaskRegionalRows(dask_df_customers.parts,
                                                      dask_df_orders.parts), ByRevenueDesc) :
              KpiReturn("dask", "regional_revenue", out)
    /\ UNCHANGED <<storeVars, fs, flow, norm, open_sessions, pandasVars, daskVars>>

\* the times of the calls
Nows ==
    { [year |-> 2024, month |-> 11, day |-> 20, hour |-> 12, minute |-> 0, second |-> 0,
       microsecond |-> 0] }

DaysArgs == {30, 60}

LimitArgs == {0, 1, 2}

AllTopArgs == {TopArgs(now, days, limit) : now \in Nows, days \in DaysArgs, limit \in LimitArgs}

SqlGetTopSpenders ==
    /\ \E args \in AllTopArgs, db_error \in BOOLEAN :
         IF db_error THEN TopRaise("sql", args, "OperationalError")
         ELSE \E out \in SortedOutputs(SetToSeq(SqlTopRows(Db, args.now, args.days)),
                                       BySumDesc) :
                 TopReturn("sql", args, MapSeq(TopRow, FirstRows(out, args.limit)))
    /\ open_sessions' = open_sessions + OpenCount(kpi'.session)
    /\ UNCHANGED <<storeVars, fs, flow, norm, pandasVars, daskVars>>

PandasGetTopSpenders ==
    /\ \E args \in AllTopArgs :
         IF ~pandas_df_customers.loaded \/ ~pandas_df_orders.loaded
         THEN TopRaise("pandas", args, "ValueError")
         ELSE \E out \in SortedOutputs(PdTopRows(pandas_df_customers.rows, pandas_df_orders.rows,
                                                 args.now, args.days), ByTotalSpentDesc) :
                TopReturn("pandas", args, MapSeq(TopRow, FirstRows(out, args.limit)))
    /\ UNCHANGED <<storeVars, fs, flow, norm, open_sessions, pandasVars, daskVars>>

DaskGetTopSpenders ==
    /\ \E args \in AllTopArgs :
         IF ~dask_df_customers.loaded \/ ~dask_df_orders.loaded
         THEN TopRaise("dask", args, "ValueError")
         ELSE IF dask_df_orders.compute_exc # ""
         THEN TopRaise("dask", args, dask_df_orders.compute_exc)
         ELSE \E out \in SortedOutputs(DaskTopRows(dask_df_customers.parts, dask_df_orders.parts,
                                                   args.now, args.days), ByTotalSpentDesc) :
                TopReturn("dask", args, MapSeq(TopRow, FirstRows(out, args.limit)))
    /\ UNCHANGED <<storeVars, fs, flow, norm, open_sessions, pandasVars, daskVars>>

NextKpi ==
    \/ RunSqlLoad
    \/ PandasLoadData
    \/ DaskLoadData
    \/ SqlGetRepeatCustomers
    \/ SqlGetMonthlyOrderTrends
    \/ SqlGetRegionalRevenue
    \/ PandasGetRepeatCustomers
    \/ PandasGetMonthlyOrderTrends
    \/ PandasGetRegionalRevenue
    \/ DaskGetRepeatCustomers
    \/ DaskGetMonthlyOrderTrends
    \/ DaskGetRegionalRevenue
    \/ SqlGetTopSpenders
    \/ PandasGetTopSpenders
    \/ DaskGetTopSpenders

SpecKpi == InitKpi /\ [][NextKpi]_vars
(***************************************************************************)
(* flows/daily_ingestion.py.  The incoming directory is the files it       *)
(* lists: a file is its stem and suffix, readable (pd.read_csv parses it,  *)
(* open().read() decodes it) and, for XML, the markup of its content.      *)
(***************************************************************************)
IncomingCsv(stem, readable) ==
    [stem |-> stem, suffix |-> ".csv", readable |-> readable, content |-> <<>>]

IncomingXml(stem, content) ==
    [stem |-> stem, suffix |-> ".xml", readable |-> TRUE, content |-> content]

\* an <orders> document of one <order>
WrappedOrders == <<"<orders>", "<order>", "</order>", "</orders>">>

\* the <order> elements under another root
NoWrapper == <<"<data>", "<order>", "</order>", "</data>">>

IncomingDirs ==
    { <<>>,
      <<IncomingCsv("customers", TRUE), IncomingXml("orders", WrappedOrders)>>,
      <<IncomingXml("orders", NoWrapper), IncomingXml("orders2", WrappedOrders)>>,
      <<IncomingXml("orders", NoWrapper), IncomingCsv("orders", FALSE)>>,
      <<IncomingXml("late", NoWrapper), IncomingCsv("customers", TRUE),
        IncomingXml("orders", WrappedOrders)>> }

\* detect_new_files: the *.csv files, then the *.xml files
detect_new_files(incoming) ==
    SelectSeq(incoming, LAMBDA f : f.suffix = ".csv")
      \o SelectSeq(incoming, LAMBDA f : f.suffix = ".xml")

\* the check without the test for the <orders> wrapper
validate_file_schema_NoWrapperTest(file_path) ==
    IF file_path.suffix = ".csv" THEN file_path.readable
    ELSE IF file_path.suffix = ".xml" THEN file_path.readable
    ELSE FALSE

\* validate_file_schema: an exception of the read is logged and gives False
validate_file_schema(file_path) ==
    IF file_path.suffix = ".csv" THEN file_path.readable
    ELSE IF file_path.suffix = ".xml"
    THEN /\ file_path.readable
         /\ "<orders>" \in Range(file_path.content)
         /\ "</orders>" \in Range(file_path.content)
    ELSE FALSE

\* the reason daily_ingestion_flow passes to handle_rejected_records
SchemaReason == "Schema validation failed"

\* handle_rejected_records: json.dump to rejects/{stem}_rejected_{timestamp}.json,
\* which replaces a file of that name
handle_rejected_records(rejects, file_path, rejected_records, reason, timestamp) ==
    {a \in rejects : a.path # <<file_path.stem, timestamp>>}
      \cup {[path |-> <<file_path.stem, timestamp>>,
             file_name |-> <<file_path.stem, file_path.suffix>>,
             reason |-> reason, rejected_count |-> Len(rejected_records),
             records |-> rejected_records]}

\* the dict process_incremental_load returns for the outcome r of load_all_data
LoadResult(file_path, r) ==
    IF r.raised
    THEN [file_name |-> <<file_path.stem, file_path.suffix>>, error |-> IF r.c.raised THEN r.c.exc ELSE r.o.exc,
          status |-> "failed"]
    ELSE [file_name |-> <<file_path.stem, file_path.suffix>>,
          records_loaded |-> [customers_loaded |-> r.c.loaded,
                              orders_loaded |-> r.o.loaded],
          status |-> "success"]

\* process_incremental_load: load_all_data() on the configured paths, whatever
\* file_path is; an exception is caught and reported as status failed
process_incremental_load(file_path, d, csv, xml, csv_db_error, xml_db_error) ==
    load_all_data(d, csv, xml, csv_db_error, xml_db_error)

\* the flow goes on to the next file of new_files, or completes
NextFile(f) ==
    IF f.i = Len(f.new_files) THEN [f EXCEPT !.pc = "done"]
    ELSE [f EXCEPT !.pc = "checksum", !.i = @ + 1]

\* file i of the run enters state s
Enter(f, s) == [f EXCEPT !.trace[f.i] = Append(@, s)]

\* a process_incremental_load without its except clause: the exception of
\* the load ends the flow
AfterLoad_Reraise(f, r) ==
    IF r.raised THEN [f EXCEPT !.pc = "failed", !.exc = r.o.exc]
    ELSE NextFile([Enter(f, "LOADED") EXCEPT !.results = Append(@, LoadResult(f.new_files[f.i], r))])

\* results.append(result), the status is logged, and the loop goes on
AfterLoad(f, r) ==
    NextFile([Enter(f, IF r.raised THEN "LOAD_FAILED" ELSE "LOADED")
                EXCEPT !.results = Append(@, LoadResult(f.new_files[f.i], r))])

InitFlow ==
    /\ InitState
    /\ fs \in [csv : CsvFiles, xml : XmlFiles]
    /\ \E incoming \in IncomingDirs : flow = [NoFlow EXCEPT !.incoming = incoming]

\* @task(retries=3, retry_delay_seconds=10): a task run that raised is run
\* again, retries times at most, retry_delay_seconds after the failure
Retries == 3

RetryDelaySeconds == 10

\* a run of detect_new_files has raised: it is tried again after the delay,
\* or, when the retries are used up, the exception leaves the task and ends
\* the flow
DetectFailed(f) ==
    IF f.attempts < Retries
    THEN [f EXCEPT !.attempts = @ + 1, !.now = @ + RetryDelaySeconds]
    ELSE [f EXCEPT !.attempts = @ + 1, !.pc = "failed", !.exc = "OSError"]

\* listing_error is an OSError of the listing of the incoming directory
DetectNewFiles ==
    /\ flow.pc = "idle"
    /\ \E listing_error \in BOOLEAN :
         IF listing_error THEN flow' = DetectFailed(flow)
         ELSE \E new_files \in {detect_new_files(flow.incoming)} :
                 flow' = [flow EXCEPT !.new_files = new_files,
                                      !.attempts = @ + 1,
                                      !.trace = [k \in 1..Len(new_files) |-> <<"DISCOVERED">>],
                                      !.pc = IF new_files = <<>> THEN "done" ELSE "checksum",
                                      !.i = IF new_files = <<>> THEN 0 ELSE 1]
    /\ UNCHANGED <<storeVars, fs, pandasVars, daskVars, kpi, open_sessions, norm>>

\* calculate_file_checksum: the digest is only logged
CalculateFileChecksum ==
    /\ flow.pc = "checksum"
    /\ flow' = [Enter(flow, "CHECKSUMMED") EXCEPT !.pc = "validate"]
    /\ UNCHANGED <<storeVars, fs, pandasVars, daskVars, kpi, open_sessions, norm>>

ValidateFileSchema ==
    /\ flow.pc = "validate"
    /\ \E is_valid \in {validate_file_schema(flow.new_files[flow.i])} :
         flow' = [Enter(flow, "SCHEMA_CHECKED") EXCEPT
                     !.is_valid = is_valid,
                     !.pc = IF is_valid THEN "load" ELSE "reject"]
    /\ UNCHANGED <<storeVars, fs, pandasVars, daskVars, kpi, open_sessions, norm>>

\* if not is_valid: handle_rejected_records(file_path, [], reason); continue.
\* The timestamp has the resolution of a second: it is that of the reject
\* before it, or a later one
HandleRejectedRecords ==
    /\ flow.pc = "reject"
    /\ \E timestamp \in {flow.now, flow.now + 1} :
         flow' = NextFile([Enter(flow, "REJECTED") EXCEPT
                             !.rejects = handle_rejected_records(@, flow.new_files[flow.i],
                                                                 <<>>, SchemaReason, timestamp),
                             !.now = timestamp])
    /\ UNCHANGED <<storeVars, fs, pandasVars, daskVars, kpi, open_sessions, norm>>

ProcessIncrementalLoad ==
    /\ flow.pc = "load"
    /\ \E csv_db_error, xml_db_error \in BOOLEAN :
         \E r \in {process_incremental_load(flow.new_files[flow.i], Db, fs.csv, fs.xml,
                                            csv_db_error, xml_db_error)} :
             /\ SetDb(r.db)
             /\ csv_loaded' = IF r.c.raised THEN csv_loaded ELSE <<fs.csv>>
             /\ last' = [op |-> "process_incremental_load", raised |-> r.raised,
                         c |-> r.c, o |-> r.o, prev |-> csv_loaded]
             /\ flow' = AfterLoad(flow, r)
             /\ open_sessions' = open_sessions + OpenCount(r.c.session) + OpenCount(r.o.session)
    /\ UNCHANGED <<calls, fs, pandasVars, daskVars, kpi, norm>>

NextFlow ==
    \/ DetectNewFiles
    \/ CalculateFileChecksum
    \/ ValidateFileSchema
    \/ HandleRejectedRecords
    \/ ProcessIncrementalLoad

SpecFlow == InitFlow /\ [][NextFlow]_vars

\* the flow is a sequential program: a task call that can be made is made
SpecFlowFair == SpecFlow /\ WF_vars(NextFlow)

(***************************************************************************)
(* The loaders of the three backends called on a named path                *)
(***************************************************************************)
\* a loader of PandasAnalytics or DaskAnalytics has returned or raised; seq
\* is the number of the call in the run
LoaderReturn(backend, name, file, raised, exc) ==
    kpi' = [backend |-> backend, name |-> name, args |-> NoArgs, repeated |-> FALSE,
            raised |-> raised, exc |-> exc, rows |-> <<>>, session |-> NoSession,
            file |-> file, seq |-> calls + 1]

\* the state main.py leaves behind: the store after load_all_data, and the
\* frames after load_data, on the files at the configured paths
InitLoaders ==
    /\ fs \in [csv : CsvFiles, xml : XmlFiles]
    /\ \E r \in {load_all_data(reset_database_db, fs.csv, fs.xml, FALSE, FALSE)} :
           /\ customers = r.db.customers
           /\ orders = r.db.orders
           /\ next_customer_id = r.db.next_customer_id
           /\ csv_loaded = IF r.c.raised THEN <<>> ELSE <<fs.csv>>
           /\ last = [op |-> "load_all_data", raised |-> r.raised,
                      c |-> r.c, o |-> r.o, prev |-> <<>>]
    /\ \E c \in {PdCustomersTable[fs.csv]}, o \in {PdOrdersTable[fs.xml]} :
           /\ pandas_df_customers =
                 IF c.raised THEN NoFrame ELSE [loaded |-> TRUE, rows |-> c.df]
           /\ pandas_df_orders =
                 IF c.raised \/ o.raised THEN NoFrame ELSE [loaded |-> TRUE, rows |-> o.df]
    /\ \E split \in 0..Len(fs.xml.orders) :
         \E c \in {dask_load_customers_from_csv(fs.csv)},
            o \in {dask_load_orders_from_xml(fs.xml, split)} :
             /\ dask_df_customers =
                   IF c.raised THEN NoDaskFrame
                   ELSE [loaded |-> TRUE, compute_exc |-> c.compute_exc, parts |-> c.parts]
             /\ dask_df_orders =
                   IF c.raised \/ o.raised THEN NoDaskFrame
                   ELSE [loaded |-> TRUE, compute_exc |-> o.compute_exc, parts |-> o.parts]
    /\ calls = 0
    /\ kpi = NoKpi
    /\ open_sessions = 0
    /\ flow = NoFlow
    /\ norm = NoNorm

\* PandasAnalytics.load_customers_from_csv(csv_path)
PandasLoadCustomersFromCsv ==
    /\ calls < MaxCalls
    /\ \E csv \in CsvPaths :
         \E c \in {PdCustomersTable[csv]} :
             /\ pandas_df_customers' =
                   IF c.raised THEN pandas_df_customers ELSE [loaded |-> TRUE, rows |-> c.df]
             /\ LoaderReturn("pandas", "load_customers_from_csv", csv, c.raised, c.exc)
    /\ calls' = calls + 1
    /\ UNCHANGED <<customers, orders, next_customer_id, csv_loaded, last, fs, flow, norm,
                   open_sessions, pandas_df_orders, daskVars>>

\* PandasAnalytics.load_orders_from_xml(xml_path)
PandasLoadOrdersFromXml ==
    /\ calls < MaxCalls
    /\ \E xml \in XmlPaths :
         \E o \in {PdOrdersTable[xml]} :
             /\ pandas_df_orders' =
                   IF o.raised THEN pandas_df_orders ELSE [loaded |-> TRUE, rows |-> o.df]
             /\ LoaderReturn("pandas", "load_orders_from_xml", xml, o.raised, o.exc)
    /\ calls' = calls + 1
    /\ UNCHANGED <<customers, orders, next_customer_id, csv_loaded, last, fs, flow, norm,
                   open_sessions, pandas_df_customers, daskVars>>

\* DaskAnalytics.load_customers_from_csv(csv_path)
DaskLoadCustomersFromCsv ==
    /\ calls < MaxCalls
    /\ \E csv \in CsvPaths :
         \E c \in {dask_load_customers_from_csv(csv)} :
             /\ dask_df_customers' =
                   IF c.raised THEN dask_df_customers
                   ELSE [loaded |-> TRUE, compute_exc |-> c.compute_exc, parts |-> c.parts]
             /\ LoaderReturn("dask", "load_customers_from_csv", csv, c.raised, c.exc)
    /\ calls' = calls + 1
    /\ UNCHANGED <<customers, orders, next_customer_id, csv_loaded, last, fs, flow, norm,
                   open_sessions, pandasVars, dask_df_orders>>

\* DaskAnalytics.load_orders_from_xml(xml_path)
DaskLoadOrdersFromXml ==
    /\ calls < MaxCalls
    /\ \E xml \in XmlPaths :
         \E split \in 0..Len(xml.orders) :
             \E o \in {dask_load_orders_from_xml(xml, split)} :
                 /\ dask_df_orders' =
                       IF o.raised THEN dask_df_orders
                       ELSE [loaded |-> TRUE, compute_exc |-> o.compute_exc,
                             parts |-> o.parts]
                 /\ LoaderReturn("dask", "load_orders_from_xml", xml, o.raised, o.exc)
    /\ calls' = calls + 1
    /\ UNCHANGED <<customers, orders, next_customer_id, csv_loaded, last, fs, flow, norm,
                   open_sessions, pandasVars, dask_df_customers>>

NextLoaders ==
    \/ LoadCustomersFromCsv
    \/ LoadOrdersFromXml
    \/ PandasLoadCustomersFromCsv
    \/ PandasLoadOrdersFromXml
    \/ DaskLoadCustomersFromCsv
    \/ DaskLoadOrdersFromXml

SpecLoaders == InitLoaders /\ [][NextLoaders]_vars

(***************************************************************************)
(* The normalizers of DataHelpers called on a value                        *)
(***************************************************************************)
Txt1e400 == <<"1", "e", "4", "0", "0">>

TxtNegInf == <<"-", "i", "n", "f">>

TxtNan == <<"n", "a", "n">>

\* the texts a cell of a source file may hold
NormTexts ==
    { <<>>, TxtBlank, TxtA, <<"x">>, <<"1", "2", "a">>, <<" ", "4", "2", " ">>, <<"-", "7">>,
      <<"3", ".", "9">>, <<"2", "e", "3">>, Amt5500, Amt4, TxtInf, TxtNegInf, TxtNan, Txt1e400,
      <<"-">> \o Txt1e400, Mob1, Mob1Alt, MobShort, DateOct, DateNov, DateBad }

\* the values a normalizer is called on: absent, a text, or the number or
\* the datetime a frame holds
NormValues ==
    {PyNone} \cup {PyStr(t) : t \in NormTexts}
      \cup {PyInt(0), PyInt(42), PyFloat("fin", 5500), PyFloat("inf", 0), PyNaN}

\* the values safe_int and safe_float are called on: all of them but the
\* ten-digit number, which is above the integers of the model
NumberValues == NormValues \ {PyStr(Mob1)}

IntDefaults == {PyInt(0), PyInt(-1)}

FloatDefaults == {PyFloat("fin", 0), PyFloat("fin", -1000)}

\* again tells that the value is what the call before, of the same function,
\* returned
NormReturn(fn, value, default, out) ==
    norm' = [fn |-> fn, value |-> value, default |-> default, out |-> out,
             again |-> norm.fn = fn /\ value = norm.out]

\* what the last call returned, when it was a call of fn
Returned(fn) == IF norm.fn = fn THEN {norm.out} ELSE {}

CleanString ==
    /\ \E value \in NormValues : NormReturn("clean_string", value, PyNone, clean_string(value))
    /\ UNCHANGED <<storeVars, fs, pandasVars, daskVars, kpi, open_sessions, flow>>

NormalizeMobileNumber ==
    /\ \E mobile \in NormValues \cup Returned("normalize_mobile_number") :
         NormReturn("normalize_mobile_number", mobile, PyNone, normalize_mobile_number(mobile))
    /\ UNCHANGED <<storeVars, fs, pandasVars, daskVars, kpi, open_sessions, flow>>

NormalizeDate ==
    /\ \E date_value \in NormValues \cup Returned("normalize_date") :
         NormReturn("normalize_date", date_value, PyNone, normalize_date(date_value))
    /\ UNCHANGED <<storeVars, fs, pandasVars, daskVars, kpi, open_sessions, flow>>

SafeFloat ==
    /\ \E value \in NumberValues, default \in FloatDefaults :
         NormReturn("safe_float", value, default, safe_float(value, default))
    /\ UNCHANGED <<storeVars, fs, pandasVars, daskVars, kpi, open_sessions, flow>>

SafeInt ==
    /\ \E value \in NumberValues, default \in IntDefaults :
         NormReturn("safe_int", value, default, safe_int(value, default))
    /\ UNCHANGED <<storeVars, fs, pandasVars, daskVars, kpi, open_sessions, flow>>

\* the names and the values of the dicts validate_required_fields is called on
FieldNames == {"order_id", "mobile_number", "sku_id"}

FieldValues == {PyNone, PyStr(<<>>), PyStr(TxtBlank), PyStr(TxtA), PyInt(0)}

Dicts == UNION {[D -> FieldValues] : D \in SUBSET FieldNames}

RequiredLists ==
    { <<>>, <<"order_id">>, <<"order_id", "mobile_number">>, <<"sku_id", "order_id">>,
      <<"mobile_number", "sku_id", "order_id">> }

\* the tuple (is_valid, missing_fields)
PyTuple(r) == [t |-> "tuple", v |-> <<r.is_valid, r.missing_fields>>]

ValidateRequiredFields ==
    /\ \E data \in Dicts, required_fields \in RequiredLists :
         NormReturn("validate_required_fields", data, required_fields,
                    PyTuple(validate_required_fields(data, required_fields)))
    /\ UNCHANGED <<storeVars, fs, pandasVars, daskVars, kpi, open_sessions, flow>>

NextNorm ==
    \/ ValidateRequiredFields
    \/ CleanString
    \/ NormalizeMobileNumber
    \/ NormalizeDate
    \/ SafeFloat
    \/ SafeInt

SpecNorm == Init /\ [][NextNorm]_vars

(***************************************************************************)
(* Properties of the loader (specification Spec)                           *)
(***************************************************************************)
\* the calls of the last operation
LastCalls == {x \in {last.c, last.o} : x.called}

IsCsvCall(call) == call = last.c

KeyOf(entity) ==
    IF entity.tbl = "customers" THEN entity.row.mobile_number ELSE entity.row.order_id

\* what one row gives when it is the only row of its file: the entity it adds
RowAloneCsvTable ==
    [csv \in CsvPaths |-> [i \in 1..Len(csv.rows) |-> CustomerRowStep(csv.rows[i], LoopStart)]]

RowAloneXmlTable ==
    [xml \in XmlPaths |->
        [i \in 1..Len(xml.orders) |->
            OrderRowStep(xml.orders[i], [LoopStart EXCEPT !.order_id_bound = TRUE])]]

RowAlone(call, i) ==
    IF IsCsvCall(call) THEN RowAloneCsvTable[call.file][i] ELSE RowAloneXmlTable[call.file][i]

RowsOf(call) == IF IsCsvCall(call) THEN call.file.rows ELSE call.file.orders

\* the rows that pass normalization and validation
ValidRows(call) == {i \in 1..Len(RowsOf(call)) : RowAlone(call, i).loaded = 1}

\* the rows whose processing raises
ErrorXmlRows(xml) ==
    {i \in 1..Len(xml.orders) :
        "raise" \in {safe_int(ElemText(xml.orders[i], "order_id"), PyInt(0)).t,
                     safe_int(ElemText(xml.orders[i], "sku_count"), PyInt(0)).t}}

ErrorXmlTable == [xml \in XmlPaths |-> ErrorXmlRows(xml)]

ErrorRows(call) == IF IsCsvCall(call) THEN {} ELSE ErrorXmlTable[call.file]

RowKey(call, i) == KeyOf(RowAlone(call, i).session.pending[1])

KeysIn(d, call) ==
    IF IsCsvCall(call) THEN {c.mobile_number : c \in d.customers}
    ELSE {o.order_id : o \in d.orders}

\* valid rows whose key is in the store before the call or on an earlier valid row
DuplicateRows(call) ==
    {i \in ValidRows(call) :
        \/ RowKey(call, i) \in KeysIn(call.pre, call)
        \/ \E j \in ValidRows(call) : j < i /\ RowKey(call, j) = RowKey(call, i)}

\* the file could be read and the database did not fail
FileAndDbFine(call) ==
    /\ call.exc \notin {"OperationalError", "UnicodeDecodeError", "ParseError"}
    /\ (IsCsvCall(call) => ~call.file.read_error)
    /\ (~IsCsvCall(call) => ~call.file.malformed)

\* C1: a record whose key duplicates one in the store or one accepted earlier
\* in the file is not loaded and is counted as skipped, every other valid
\* record of the file is committed and the call returns normally.
C1_DuplicateSkippedLoadContinues ==
    \A call \in LastCalls :
        (FileAndDbFine(call) /\ ErrorRows(call) = {} /\ DuplicateRows(call) # {}) =>
            /\ ~call.raised
            /\ \A i \in ValidRows(call) : RowKey(call, i) \in KeysIn(call.post, call)
            /\ call.skipped = Len(RowsOf(call)) - Cardinality(ValidRows(call) \ DuplicateRows(call))

\* C2: a second load_customers_from_csv of the same CSV, with no reset in
\* between, completes, leaves the stored Customers as they were and counts
\* every row whose mobile_number is already present as skipped.
C2_SecondLoadOfSameCsv ==
    (last.c.called /\ last.prev = <<last.c.file>> /\ FileAndDbFine(last.c)) =>
        /\ ~last.c.raised
        /\ last.c.post.customers = last.c.pre.customers
        /\ last.c.skipped = Len(last.c.file.rows)

\* C3: no two stored Customers have the same mobile_number and no two stored
\* Orders have the same order_id, after any sequence of loads and resets.
C3_UniqueKeys ==
    /\ \A c1, c2 \in customers : c1.mobile_number = c2.mobile_number => c1 = c2
    /\ \A o1, o2 \in orders : o1.order_id = o2.order_id => o1 = o2

\* a load that met a duplicate key has run on a store that holds rows
C3_Witness ==
    /\ \E call \in LastCalls : call.exc = "IntegrityError"
    /\ customers # {} /\ orders # {}

\* C4: when one record raises an unexpected error, the records of the same
\* file accepted before it are still in the store after the commit.
C4_ErrorDiscardsOnlyThatRecord ==
    \A call \in LastCalls :
        (~call.raised /\ ErrorRows(call) # {}) =>
            \A i \in ValidRows(call) :
                (\E e \in ErrorRows(call) : i < e) => RowKey(call, i) \in KeysIn(call.post, call)

\* C5: a load that ends with an exception leaves the store holding exactly
\* the Customers and Orders it held before the call.
C5_FailedLoadCommitsNothing ==
    /\ \A call \in LastCalls : call.raised => call.post = call.pre
    /\ (last.op \in {"load_customers_from_csv", "load_orders_from_xml"} /\ last.raised) =>
           \A call \in LastCalls : Db = call.pre

\* a load of a file with valid records has raised on a store that holds rows
C5_Witness ==
    /\ last.op \in {"load_customers_from_csv", "load_orders_from_xml"}
    /\ \E call \in LastCalls :
         call.raised /\ ValidRows(call) # {} /\ call.pre.customers # {}

IsDate(d) == d.year >= 1 /\ d.month \in 1..12 /\ d.day \in 1..31

\* rows with a missing or blank required field, or with order_id 0
ViolatingCsvRows(csv) ==
    {i \in 1..Len(csv.rows) :
        \/ clean_string(csv.rows[i].customer_name).t = "NoneType"
        \/ normalize_mobile_number(csv.rows[i].mobile_number).t = "NoneType"
        \/ clean_string(csv.rows[i].region).t = "NoneType"}

ViolatingXmlRows(xml) ==
    {i \in 1..Len(xml.orders) :
        /\ "raise" \notin {safe_int(ElemText(xml.orders[i], "order_id"), PyInt(0)).t,
                           safe_int(ElemText(xml.orders[i], "sku_count"), PyInt(0)).t}
        /\ \/ safe_int(ElemText(xml.orders[i], "order_id"), PyInt(0)).v = 0
           \/ normalize_mobile_number(ElemText(xml.orders[i], "mobile_number")).t = "NoneType"
           \/ normalize_date(ElemText(xml.orders[i], "order_date_time")).t = "NoneType"
           \/ clean_string(ElemText(xml.orders[i], "sku_id")).t = "NoneType"}

ViolatingCsvTable == [csv \in CsvPaths |-> ViolatingCsvRows(csv)]

ViolatingXmlTable == [xml \in XmlPaths |-> ViolatingXmlRows(xml)]

ViolatingRows(call) ==
    IF IsCsvCall(call) THEN ViolatingCsvTable[call.file] ELSE ViolatingXmlTable[call.file]

\* C6: every stored Order has order_id # 0 and a non-empty mobile_number,
\* order_date_time and sku_id, every stored Customer a non-empty
\* customer_name, mobile_number and region; a record that violates this is
\* skipped and counted, and the records after it are still processed.
C6_RequiredFields ==
    /\ \A o \in orders :
         /\ o.order_id # 0
         /\ Strip(o.mobile_number) # <<>>
         /\ IsDate(o.order_date_time)
         /\ Strip(o.sku_id) # <<>>
    /\ \A c \in customers :
         Strip(c.customer_name) # <<>> /\ Strip(c.mobile_number) # <<>> /\ Strip(c.region) # <<>>
    /\ \A call \in LastCalls :
         (call.exc \notin {"ParseError", "UnboundLocalError"}) =>
             /\ call.skipped >= Cardinality(ViolatingRows(call))
             /\ call.loaded + call.skipped = Len(RowsOf(call))
             /\ \A i \in ViolatingRows(call) : i \notin ValidRows(call)

\* a file whose first record is invalid has been loaded and a later record of
\* it is in the store
C6_Witness ==
    \E call \in LastCalls :
        /\ ~call.raised
        /\ 1 \in ViolatingRows(call)
        /\ \E i \in ValidRows(call) : i > 1 /\ RowKey(call, i) \in KeysIn(Db, call)
                                         /\ RowKey(call, i) \notin KeysIn(call.pre, call)

(***************************************************************************)
(* Properties of the analytics (specification SpecKpi)                     *)
(***************************************************************************)
\* the rows of q with the number of times each occurs
BagOf(q) == [x \in Range(q) |-> Cardinality({i \in DOMAIN q : q[i] = x})]

RECURSIVE SumField(_, _)
SumField(rows, f) == IF rows = <<>> THEN 0 ELSE Head(rows)[f] + SumField(Tail(rows), f)

\* the snapshot a backend computes its KPIs on
SnapshotCustomers(backend) ==
    IF backend = "sql" THEN SetToSeq(customers)
    ELSE IF backend = "pandas" THEN pandas_df_customers.rows
    ELSE Concat(dask_df_customers.parts)

SnapshotOrders(backend) ==
    IF backend = "sql" THEN SetToSeq(orders)
    ELSE IF backend = "pandas" THEN pandas_df_orders.rows
    ELSE Concat(dask_df_orders.parts)

OrdersOfMobile(backend, mobile) ==
    Len(SelectSeq(SnapshotOrders(backend), LAMBDA o : o.mobile_number = mobile))

\* the three backends have loaded the files at the configured paths
AllBackendsLoaded ==
    /\ last.op = "load_all_data" /\ ~last.raised
    /\ pandas_df_customers.loaded /\ pandas_df_orders.loaded
    /\ dask_df_customers.loaded /\ dask_df_orders.loaded
    /\ dask_df_orders.compute_exc = ""

RepeatKey(r) ==
    [customer_name |-> r.customer_name, mobile_number |-> r.mobile_number,
     region |-> r.region, order_count |-> r.order_count]

MonthlyKey(r) == [year |-> r.year, month |-> r.month, order_count |-> r.order_count]

RegionalKey(r) ==
    [region |-> r.region, customer_count |-> r.customer_count, order_count |-> r.order_count]

\* C7: on the same CSV and XML files the SQL, pandas and Dask backends return
\* the same rows on the count and grouping fields (here for repeat customers,
\* monthly order trends and regional revenue), whatever the files hold.
C7_BackendsAgree ==
    AllBackendsLoaded =>
        /\ BagOf(MapSeq(RepeatKey, SetToSeq(SqlRepeatRows(Db))))
             = BagOf(MapSeq(RepeatKey, PdRepeatRows(pandas_df_customers.rows, pandas_df_orders.rows)))
        /\ BagOf(MapSeq(RepeatKey, PdRepeatRows(pandas_df_customers.rows, pandas_df_orders.rows)))
             = BagOf(MapSeq(RepeatKey, DaskRepeatRows(dask_df_customers.parts, dask_df_orders.parts)))
        /\ BagOf(MapSeq(MonthlyKey, SetToSeq(SqlMonthlyRows(Db))))
             = BagOf(MapSeq(MonthlyKey, PdMonthlyRows(pandas_df_orders.rows)))
        /\ BagOf(MapSeq(MonthlyKey, PdMonthlyRows(pandas_df_orders.rows)))
             = BagOf(MapSeq(MonthlyKey, DaskMonthlyRows(dask_df_orders.parts)))
        /\ BagOf(MapSeq(RegionalKey, SetToSeq(SqlRegionalRows(Db))))
             = BagOf(MapSeq(RegionalKey, PdRegionalRows(pandas_df_customers.rows, pandas_df_orders.rows)))
        /\ BagOf(MapSeq(RegionalKey, PdRegionalRows(pandas_df_customers.rows, pandas_df_orders.rows)))
             = BagOf(MapSeq(RegionalKey, DaskRegionalRows(dask_df_customers.parts, dask_df_orders.parts)))

MonthlyReturned == kpi.name = "monthly_order_trends" /\ ~kpi.raised

\* every Order of the snapshot is counted in exactly one row, and the
\* order_count values add up to the number of Orders
MonthlyCountsEveryOrderOnce ==
    /\ SumField(kpi.rows, "order_count") = Len(SnapshotOrders(kpi.backend))
    /\ \A i \in 1..Len(SnapshotOrders(kpi.backend)) :
         Cardinality({k \in 1..Len(kpi.rows) :
                        <<kpi.rows[k].year, kpi.rows[k].month>>
                          = YearMonth(SnapshotOrders(kpi.backend)[i])}) = 1

TotalAmount(backend) == SumMills(AmountsOf(SnapshotOrders(backend)))

Abs(n) == IF n < 0 THEN -n ELSE n

\* C8 as stated: the order_count values of get_monthly_order_trends sum to the
\* number of Orders of the snapshot, each Order in exactly one row, and the
\* total_revenue values sum to the total of their total_amount.
C8_MonthlyTotalsExact ==
    MonthlyReturned =>
        /\ MonthlyCountsEveryOrderOnce
        /\ SumField(kpi.rows, "total_revenue") = TotalAmount(kpi.backend)

\* C8 amended: the counts are exact, and the total_revenue values sum to the
\* total of total_amount up to the rounding of each row to 2 decimals, at
\* most 0.005 (5 mills) a row.
C8_MonthlyTotalsRounded ==
    MonthlyReturned =>
        /\ MonthlyCountsEveryOrderOnce
        /\ Abs(SumField(kpi.rows, "total_revenue") - TotalAmount(kpi.backend))
             <= 5 * Len(kpi.rows)
        /\ \A k \in 1..Len(kpi.rows) : kpi.rows[k].total_revenue % 10 = 0

\* two months are returned for a snapshot with an Order of no Customer
C8_Witness ==
    /\ MonthlyReturned
    /\ Len(kpi.rows) >= 2
    /\ \E i \in 1..Len(SnapshotOrders(kpi.backend)) :
         \A j \in 1..Len(SnapshotCustomers(kpi.backend)) :
            SnapshotCustomers(kpi.backend)[j].mobile_number
              # SnapshotOrders(kpi.backend)[i].mobile_number

CustomerKey(r) ==
    [customer_name |-> r.customer_name, mobile_number |-> r.mobile_number, region |-> r.region]

\* C9: get_repeat_customers never returns a customer with exactly 1 Order,
\* returns every customer with 2 or more Orders exactly once, with the number
\* of its Orders as order_count, in descending order of order_count.
C9_RepeatCustomers ==
    (kpi.name = "repeat_customers" /\ ~kpi.raised) =>
        LET cs == SnapshotCustomers(kpi.backend)
        IN  /\ \A k \in 1..Len(kpi.rows) :
                 /\ kpi.rows[k].order_count >= 2
                 /\ kpi.rows[k].order_count = OrdersOfMobile(kpi.backend, kpi.rows[k].mobile_number)
                 /\ \E j \in 1..Len(cs) : CustomerKey(cs[j]) = CustomerKey(kpi.rows[k])
            /\ \A j \in 1..Len(cs) :
                 Cardinality({k \in 1..Len(kpi.rows) : CustomerKey(kpi.rows[k]) = CustomerKey(cs[j])})
                   = IF OrdersOfMobile(kpi.backend, cs[j].mobile_number) >= 2
                     THEN Cardinality({i \in 1..Len(cs) : CustomerKey(cs[i]) = CustomerKey(cs[j])})
                     ELSE 0
            /\ \A k1, k2 \in 1..Len(kpi.rows) :
                 k1 < k2 => kpi.rows[k1].order_count >= kpi.rows[k2].order_count

\* a repeat customer is returned while a customer with one Order is not
C9_Witness ==
    /\ kpi.name = "repeat_customers" /\ ~kpi.raised
    /\ Len(kpi.rows) >= 1
    /\ \E j \in 1..Len(SnapshotCustomers(kpi.backend)) :
         OrdersOfMobile(kpi.backend, SnapshotCustomers(kpi.backend)[j].mobile_number) = 1

\* the customers of a region that have at least one Order
OrderingCustomers(backend, region) ==
    {j \in 1..Len(SnapshotCustomers(backend)) :
        /\ SnapshotCustomers(backend)[j].region = region
        /\ OrdersOfMobile(backend, SnapshotCustomers(backend)[j].mobile_number) >= 1}

\* C10: in get_regional_revenue the customer_count of a region never exceeds
\* the number of distinct customers of that region that have an Order, and a
\* region whose customers have no Orders has no row.
C10_RegionalCustomerCount ==
    (kpi.name = "regional_revenue" /\ ~kpi.raised) =>
        /\ \A k \in 1..Len(kpi.rows) :
             kpi.rows[k].customer_count
               <= Cardinality(OrderingCustomers(kpi.backend, kpi.rows[k].region))
        /\ \A j \in 1..Len(SnapshotCustomers(kpi.backend)) :
             OrderingCustomers(kpi.backend, SnapshotCustomers(kpi.backend)[j].region) = {}
               => \A k \in 1..Len(kpi.rows) :
                     kpi.rows[k].region # SnapshotCustomers(kpi.backend)[j].region

\* a region with a customer of two Orders has a row, another region with a
\* customer and no Orders has none
C10_Witness ==
    /\ kpi.name = "regional_revenue" /\ ~kpi.raised
    /\ \E k \in 1..Len(kpi.rows) :
         \E j \in OrderingCustomers(kpi.backend, kpi.rows[k].region) :
            OrdersOfMobile(kpi.backend, SnapshotCustomers(kpi.backend)[j].mobile_number) >= 2
    /\ \E j \in 1..Len(SnapshotCustomers(kpi.backend)) :
         OrderingCustomers(kpi.backend, SnapshotCustomers(kpi.backend)[j].region) = {}

\* the Orders of the snapshot whose mobile_number is that of a Customer
MatchedOrders(backend) ==
    {i \in 1..Len(SnapshotOrders(backend)) :
        \E j \in 1..Len(SnapshotCustomers(backend)) :
           SnapshotCustomers(backend)[j].mobile_number
             = SnapshotOrders(backend)[i].mobile_number}

\* C11: in get_regional_revenue every Order of a Customer is counted in exactly
\* one region row and an Order of no Customer in none: the order_count values
\* of the rows add up to the number of Orders whose mobile_number matches a
\* Customer.
C11_RegionalCountsMatchedOrdersOnce ==
    (kpi.name = "regional_revenue" /\ ~kpi.raised) =>
        SumField(kpi.rows, "order_count") = Cardinality(MatchedOrders(kpi.backend))

TopReturned == kpi.name = "top_spenders" /\ ~kpi.raised

\* the Orders of the snapshot with this mobile_number and
\* order_date_time >= now - days
EligibleOrders(backend, mobile, args) ==
    SelectSeq(SnapshotOrders(backend),
              LAMBDA o : /\ o.mobile_number = mobile
                         /\ OnOrAfterCutoff(o.order_date_time, args.now, args.days))

\* total_spent of a customer: the rounded sum of its eligible Orders
EligibleSpent(backend, mobile, args) ==
    Round2(SumMills(AmountsOf(EligibleOrders(backend, mobile, args))))

\* the customers of the snapshot with an eligible Order
EligibleCustomers(backend, args) ==
    {j \in 1..Len(SnapshotCustomers(backend)) :
        EligibleOrders(backend, SnapshotCustomers(backend)[j].mobile_number, args) # <<>>}

\* customer j of the snapshot is left out of the rows
LeftOut(backend, j, rows) ==
    Cardinality({k \in 1..Len(rows) : CustomerKey(rows[k]) = CustomerKey(SnapshotCustomers(backend)[j])})
      < Cardinality({i \in 1..Len(SnapshotCustomers(backend)) :
                       CustomerKey(SnapshotCustomers(backend)[i])
                         = CustomerKey(SnapshotCustomers(backend)[j])})

\* C12: get_top_spenders(days, limit) returns at most limit rows; every row is
\* a Customer of the snapshot with its Orders of order_date_time >= now - days
\* (at least one) as order_count and total_spent; the rows are in descending
\* order of total_spent; and no eligible customer left out has a larger
\* total_spent than a returned one.
C12_TopSpenders ==
    TopReturned =>
        /\ Len(kpi.rows) <= kpi.args.limit
        /\ \A k \in 1..Len(kpi.rows) :
             /\ \E j \in EligibleCustomers(kpi.backend, kpi.args) :
                   CustomerKey(SnapshotCustomers(kpi.backend)[j]) = CustomerKey(kpi.rows[k])
             /\ kpi.rows[k].order_count
                  = Len(EligibleOrders(kpi.backend, kpi.rows[k].mobile_number, kpi.args))
             /\ kpi.rows[k].total_spent
                  = EligibleSpent(kpi.backend, kpi.rows[k].mobile_number, kpi.args)
        /\ \A k1, k2 \in 1..Len(kpi.rows) :
             k1 < k2 => kpi.rows[k1].total_spent >= kpi.rows[k2].total_spent
        /\ \A j \in EligibleCustomers(kpi.backend, kpi.args) :
             LeftOut(kpi.backend, j, kpi.rows) =>
                \A k \in 1..Len(kpi.rows) :
                   EligibleSpent(kpi.backend, SnapshotCustomers(kpi.backend)[j].mobile_number,
                                 kpi.args) <= kpi.rows[k].total_spent

\* one row is returned under limit 1 while another eligible customer is left
\* out, and an Order before the cutoff is in the snapshot
C12_Witness ==
    /\ TopReturned
    /\ kpi.args.limit = 1 /\ Len(kpi.rows) = 1
    /\ \E j \in EligibleCustomers(kpi.backend, kpi.args) : LeftOut(kpi.backend, j, kpi.rows)
    /\ \E i \in 1..Len(SnapshotOrders(kpi.backend)) :
         ~OnOrAfterCutoff(SnapshotOrders(kpi.backend)[i].order_date_time, kpi.args.now,
                          kpi.args.days)

\* the step is a KPI call
KpiStep == kpi'.name # ""

\* the key the rows of a KPI are sorted by
SortKey(name, r) ==
    IF name = "repeat_customers" THEN <<r.order_count>>
    ELSE IF name = "monthly_order_trends" THEN <<r.year, r.month>>
    ELSE IF name = "regional_revenue" THEN <<r.total_revenue>>
    ELSE <<r.total_spent>>

\* two results of a KPI are the same: both raise the same exception, or both
\* return the same rows, where the order the sort gives to rows of equal key
\* is not compared (for top_spenders, the rows under the limit have the same
\* keys)
SameResult(name, a, b) ==
    /\ a.raised = b.raised /\ a.exc = b.exc
    /\ Len(a.rows) = Len(b.rows)
    /\ \A i \in 1..Len(a.rows) : SortKey(name, a.rows[i]) = SortKey(name, b.rows[i])
    /\ name # "top_spenders" => BagOf(a.rows) = BagOf(b.rows)

PandasOutputs(name, args) ==
    IF name = "repeat_customers"
    THEN SortedOutputs(PdRepeatRows(pandas_df_customers.rows, pandas_df_orders.rows),
                       ByOrderCountDesc)
    ELSE IF name = "monthly_order_trends"
    THEN SortedOutputs(PdMonthlyRows(pandas_df_orders.rows), ByYearMonth)
    ELSE IF name = "regional_revenue"
    THEN SortedOutputs(PdRegionalRows(pandas_df_customers.rows, pandas_df_orders.rows),
                       ByRevenueDesc)
    ELSE {MapSeq(TopRow, FirstRows(out, args.limit)) :
            out \in SortedOutputs(PdTopRows(pandas_df_customers.rows, pandas_df_orders.rows,
                                            args.now, args.days), ByTotalSpentDesc)}

DaskReturned == kpi.backend = "dask" /\ ~kpi.raised

\* a mobile_number whose Orders lie in more than one partition
IsSplit(mobile) ==
    Cardinality({p \in 1..Len(dask_df_orders.parts) :
                   GroupSize(dask_df_orders.parts[p], mobile) >= 1}) >= 2

\* C14: however the Orders are split into partitions, a KPI of DaskAnalytics
\* returns what PandasAnalytics returns on the unsplit frames of the same
\* files, and the order_count of a repeat customer is the number of its Orders
\* over all partitions, never that of one partition.
C14_PartitionIndependent ==
    (DaskReturned /\ pandas_df_customers.loaded /\ pandas_df_orders.loaded) =>
        /\ kpi.rows \in PandasOutputs(kpi.name, kpi.args)
        /\ kpi.name = "repeat_customers" =>
             \A k \in 1..Len(kpi.rows) :
                kpi.rows[k].order_count = OrdersOfMobile("dask", kpi.rows[k].mobile_number)

\* get_repeat_customers of DaskAnalytics has returned a customer whose two
\* Orders lie in different partitions, and PandasAnalytics has loaded the files
C14_Witness ==
    /\ DaskReturned /\ kpi.name = "repeat_customers"
    /\ pandas_df_customers.loaded /\ pandas_df_orders.loaded
    /\ \E k \in 1..Len(kpi.rows) :
         IsSplit(kpi.rows[k].mobile_number) /\ kpi.rows[k].order_count = 2

(***************************************************************************)
(* Properties of the ingestion flow (specification SpecFlow)               *)
(***************************************************************************)
\* the states a file goes through, up to its final state
FilePath(final) == <<"DISCOVERED", "CHECKSUMMED", "SCHEMA_CHECKED", final>>

IsPrefix(a, b) == Len(a) <= Len(b) /\ a = SubSeq(b, 1, Len(a))

\* file k of the run is loaded while its schema check has not passed
LoadedUnchecked(k) ==
    /\ "LOADED" \in Range(flow.trace[k])
    /\ ~validate_file_schema(flow.new_files[k])

\* C15: every discovered file is checksummed, then schema-checked, then ends
\* in exactly one of LOADED and REJECTED; no file is loaded before its schema
\* check has passed, and when the run is over no file is in another state.
C15_FileStateMachine ==
    \A k \in 1..Len(flow.trace) :
       /\ \/ IsPrefix(flow.trace[k], FilePath("LOADED"))
          \/ IsPrefix(flow.trace[k], FilePath("REJECTED"))
       /\ ~LoadedUnchecked(k)
       /\ flow.pc = "done" => Len(flow.trace[k]) = 4

\* an XML file without the <orders> wrapper element
LacksWrapper(file_path) ==
    /\ file_path.suffix = ".xml"
    /\ ~("<orders>" \in Range(file_path.content) /\ "</orders>" \in Range(file_path.content))

\* the flow has dealt with file k of the run
Handled(k) == flow.pc = "done" \/ flow.i > k

\* the reject artifacts written for file k
RejectsOf(k) ==
    {a \in flow.rejects :
        a.file_name = <<flow.new_files[k].stem, flow.new_files[k].suffix>>}

\* file k, which fails the schema pre-check, is not loaded, has exactly one
\* reject artifact, of this reason and with no records, and the run goes on
\* to the files after it
RejectedFor(k, reason) ==
    /\ "LOADED" \notin Range(flow.trace[k]) /\ "LOAD_FAILED" \notin Range(flow.trace[k])
    /\ \A j \in 1..Len(flow.results) :
          flow.results[j].file_name # <<flow.new_files[k].stem, flow.new_files[k].suffix>>
    /\ Handled(k) =>
          /\ Cardinality(RejectsOf(k)) = 1
          /\ \A a \in RejectsOf(k) :
                a.reason = reason /\ a.records = <<>> /\ a.rejected_count = 0
    /\ flow.pc = "done" =>
          \A j \in 1..Len(flow.new_files) :
             j > k => /\ Len(flow.trace[j]) = 4
                      /\ IsPrefix(FilePath("LOADED"), flow.trace[j])
                           \/ IsPrefix(SubSeq(FilePath("LOADED"), 1, 3), flow.trace[j])

\* C16 as stated: an XML file without the <orders> wrapper has zero records
\* loaded and exactly one reject artifact with reason "schema validation
\* failed" and an empty record list, and the files after it are still
\* checksummed, checked and processed.
C16_SchemaRejectAsStated ==
    \A k \in 1..Len(flow.new_files) :
       LacksWrapper(flow.new_files[k]) => RejectedFor(k, "schema validation failed")

\* C16 amended: the same, with the reason the flow writes, "Schema validation
\* failed".
C16_SchemaReject ==
    \A k \in 1..Len(flow.new_files) :
       LacksWrapper(flow.new_files[k]) => RejectedFor(k, "Schema validation failed")

\* the run is over, an XML file without the wrapper has been rejected and a
\* file after it has been loaded
C16_Witness ==
    /\ flow.pc = "done"
    /\ \E k \in 1..Len(flow.new_files) :
         /\ LacksWrapper(flow.new_files[k])
         /\ Cardinality(RejectsOf(k)) = 1
         /\ \E j \in 1..Len(flow.new_files) : j > k /\ "LOADED" \in Range(flow.trace[j])

(***************************************************************************)
(* Sessions (specifications Spec, SpecKpi and SpecFlow)                    *)
(***************************************************************************)
\* a load call that went past the test of the path
OpenedSession(call) == call.called /\ call.exc # "FileNotFoundError"

\* the load calls of the last operation that opened a Session
SessionCalls == {x \in {last.c, last.o} : OpenedSession(x)}

\* the exit path of a load call
ExitPath(call) ==
    IF call.raised THEN "exception"
    ELSE IF call.skipped > 0 THEN "records skipped"
    ELSE "success"

StoreLoadOnMissingPath ==
    /\ calls' # calls /\ kpi' = kpi
    /\ \E x \in {last'.c, last'.o} : x.called /\ ~x.file.exists

\* the step is a call of a PandasAnalytics or DaskAnalytics loader on a path
\* that does not exist
FrameLoadOnMissingPath ==
    /\ calls' # calls /\ kpi' # kpi
    /\ kpi'.backend \in {"pandas", "dask"} /\ ~kpi'.file.exists

\* C18: a loader of DataLoader, PandasAnalytics or DaskAnalytics called on a
\* path that does not exist raises FileNotFoundError, takes no Session, and
\* leaves the Customers, the Orders and the frames as they were.
C18_MissingPathRaises ==
    [][/\ StoreLoadOnMissingPath =>
            /\ \A x \in {last'.c, last'.o} :
                   x.called => /\ x.raised /\ x.exc = "FileNotFoundError"
                               /\ x.session = NoSession
                               /\ x.loaded = 0 /\ x.post = x.pre
            /\ last'.raised
            /\ UNCHANGED <<customers, orders, next_customer_id, csv_loaded, open_sessions,
                           pandasVars, daskVars>>
       /\ FrameLoadOnMissingPath =>
            /\ kpi'.raised /\ kpi'.exc = "FileNotFoundError"
            /\ kpi'.session = NoSession
            /\ UNCHANGED <<customers, orders, next_customer_id, csv_loaded, open_sessions,
                           pandasVars, daskVars>>]_vars

\* with Customers in the store and the frames loaded, a DataLoader loader
\* and a frame loader have been called on a missing path
C18_Witness ==
    /\ customers # {}
    /\ \E x \in {last.c, last.o} : x.called /\ ~x.file.exists /\ x.exc = "FileNotFoundError"
    /\ kpi.backend \in {"pandas", "dask"} /\ ~kpi.file.exists /\ kpi.raised
    /\ (pandas_df_customers.loaded \/ pandas_df_orders.loaded
        \/ dask_df_customers.loaded \/ dask_df_orders.loaded)

(***************************************************************************)
(* Loading is insert-only (specifications Spec and SpecFlow)               *)
(***************************************************************************)
\* the operations of DataLoader and of the flow that load
LoadOps ==
    {"load_customers_from_csv", "load_orders_from_xml", "load_all_data",
     "process_incremental_load"}

\* the step is a load operation
LoadStep == last'.op \in LoadOps /\ (calls' # calls \/ flow' # flow)

\* every row of d is a row of e, unchanged
KeepsRows(d, e) == d.customers \subseteq e.customers /\ d.orders \subseteq e.orders

ConversionFails(fn, value) ==
    \/ IsNoneOrEmpty(value)
    \/ ~ToFloat(value).ok
    \/ fn = "safe_int" /\ ToFloat(value).f.k # "fin"

\* C20: clean_string, normalize_mobile_number, normalize_date, safe_int and
\* safe_float return a value for every input and never raise, and safe_int
\* and safe_float return the caller's default when the conversion fails.
C20_NormalizersTotal ==
    norm.fn # "" =>
        /\ norm.out.t # "raise"
        /\ (norm.fn \in {"safe_int", "safe_float"} /\ ConversionFails(norm.fn, norm.value))
              => norm.out = norm.default

(***************************************************************************)
(* Properties of the normalizers (specification SpecNorm)                  *)
(***************************************************************************)
\* the digits of the text of a value, in their order
DigitsOf(value) == SelectSeq(Str(value), LAMBDA ch : ch \in Digits)

\* the last n elements of s (n <= Len(s))
LastOf(s, n) == [i \in 1..n |-> s[Len(s) - n + i]]

C22_Idempotent ==
    (norm.fn \in {"normalize_mobile_number", "normalize_date"} /\ norm.again) =>
        norm.out = norm.value

\* a mobile number of 10 digits cut out of a longer text, and a datetime
\* parsed from a text, have been normalized again
C22_Witness ==
    /\ norm.again
    /\ \/ norm.fn = "normalize_mobile_number" /\ norm.value.t = "str"
          /\ Len(norm.value.v) = 10
       \/ norm.fn = "normalize_date" /\ norm.value.t = "datetime"

\* the field is absent from the record, holds None, or its text has nothing
\* but white space
AbsentEmptyOrBlank(record, name) ==
    \/ name \notin DOMAIN record
    \/ record[name] = PyNone
    \/ \A i \in 1..Len(Str(record[name])) : Str(record[name])[i] \in Whitespace

\* the names of required_names, in their order, that satisfy the test
RECURSIVE ReportedNames(_, _)
ReportedNames(record, required_names) ==
    IF required_names = <<>> THEN <<>>
    ELSE (IF AbsentEmptyOrBlank(record, Head(required_names))
          THEN <<Head(required_names)>> ELSE <<>>)
            \o ReportedNames(record, Tail(required_names))

\* C23: validate_required_fields returns the required names that are absent,
\* None or blank, in the order of required_names, with a flag that is true
\* exactly when there is none; a field that holds the integer 0 is not
\* reported.
C23_RequiredFieldsReported ==
    norm.fn = "validate_required_fields" =>
        /\ norm.out.v[2] = ReportedNames(norm.value, norm.default)
        /\ norm.out.v[1] = (norm.out.v[2] = <<>>)
        /\ \A i \in 1..Len(norm.out.v[2]) :
               norm.out.v[2][i] \in DOMAIN norm.value => norm.value[norm.out.v[2][i]] # PyInt(0)

\* a record with a 0, a blank and an absent field among the required names
\* has been validated: the blank and the absent one are reported, in order
C23_Witness ==
    /\ norm.fn = "validate_required_fields"
    /\ norm.default = <<"mobile_number", "sku_id", "order_id">>
    /\ DOMAIN norm.value = {"order_id", "mobile_number"}
    /\ norm.value["order_id"] = PyInt(0) /\ norm.value["mobile_number"] = PyStr(TxtBlank)
    /\ norm.out.v = <<FALSE, <<"mobile_number", "sku_id">> >>

\* C24: clean_string(None), clean_string("") and
\* normalize_mobile_number(None) are the empty string.
C24_EmptyInputGivesEmptyString ==
    (\/ norm.fn = "clean_string" /\ norm.value \in {PyNone, PyStr(<<>>)}
     \/ norm.fn = "normalize_mobile_number" /\ norm.value = PyNone)
        => norm.out = PyStr(<<>>)

(***************************************************************************)
(* Retries and completion of the flow (specification SpecFlow)             *)
(***************************************************************************)
\* C25: detect_new_files is attempted 3 times in all when the listing keeps
\* failing, with a delay before each new attempt; the error then leaves the
\* task and ends the flow, and an attempt that succeeds ends the retries.
C25_ThreeAttempts ==
    /\ flow.attempts <= 3
    /\ flow.pc = "failed" => flow.attempts = 3 /\ flow.exc # ""
    /\ flow.pc = "idle" => flow.now = flow.attempts * RetryDelaySeconds
    /\ flow.pc \notin {"idle", "failed"} => flow.attempts >= 1 /\ flow.exc = ""

\* the last state file k of the run has entered
FinalState(k) == flow.trace[k][Len(flow.trace[k])]

\* a load result is recorded for file k
HasResult(k) ==
    \E j \in 1..Len(flow.results) :
        flow.results[j].file_name = <<flow.new_files[k].stem, flow.new_files[k].suffix>>

\* the run has ended normally with every discovered file rejected or with a
\* load result, or discovery has failed after its retries
Completed ==
    \/ /\ flow.pc = "done"
       /\ Len(flow.trace) = Len(detect_new_files(flow.incoming))
       /\ \A k \in 1..Len(flow.trace) :
            \/ FinalState(k) = "REJECTED" /\ ~HasResult(k)
            \/ FinalState(k) \in {"LOADED", "LOAD_FAILED"} /\ HasResult(k)
    \/ /\ flow.pc = "failed"
       /\ flow.trace = <<>> /\ flow.attempts = Retries + 1

FileOf(result) ==
    CHOOSE file_path \in Range(flow.new_files) :
        <<file_path.stem, file_path.suffix>> = result.file_name

\* the number of <order> elements of an XML file
OrderElements(file_path) ==
    Cardinality({i \in 1..Len(file_path.content) : file_path.content[i] = "<order>"})

\* the summary of a result counts records of the file the result names: a
\* CSV file holds no orders, an XML file no customers and no more orders
\* than its <order> elements
DescribesItsFile(result) ==
    /\ FileOf(result).suffix = ".csv" => result.records_loaded.orders_loaded = 0
    /\ FileOf(result).suffix = ".xml" =>
          /\ result.records_loaded.customers_loaded = 0
          /\ result.records_loaded.orders_loaded <= OrderElements(FileOf(result))

\* C27: the outcome recorded for a discovered file describes that file: the
\* records process_incremental_load(file_path) loads are records of file_path.
C27_OutcomeDescribesFile ==
    \A j \in 1..Len(flow.results) :
        flow.results[j].status = "success" => DescribesItsFile(flow.results[j])

(***************************************************************************)
(* The value a load returns (specification Spec)                           *)
(***************************************************************************)
\* the number of stored records of the table the call loads
StoreSize(d, call) ==
    IF IsCsvCall(call) THEN Cardinality(d.customers) ELSE Cardinality(d.orders)

\* C28: when load_customers_from_csv or load_orders_from_xml returns normally,
\* the integer it returns is the number of records the call added to the
\* store: the size of the store after the call minus its size before.
C28_ReturnCountsAddedRecords ==
    \A call \in LastCalls :
        ~call.raised => call.loaded = StoreSize(call.post, call) - StoreSize(call.pre, call)

(***************************************************************************)
(* The rows the loaders accept (specification SpecLoaders)                 *)
(***************************************************************************)
\* the rows of a CSV that DataLoader.load_customers_from_csv accepts: they
\* pass normalization and validate_required_fields
AcceptedByDataLoader(csv) ==
    MapSeq(LAMBDA st : st.session.pending[1].row,
           SelectSeq(RowAloneCsvTable[csv], LAMBDA st : st.loaded = 1))

\* the customers frame of a backend
CustomersFrame(backend) ==
    IF backend = "pandas" THEN pandas_df_customers.rows
    ELSE Concat(dask_df_customers.parts)

\* a load_customers_from_csv of PandasAnalytics or DaskAnalytics has returned
FrameCustomersLoaded == kpi.name = "load_customers_from_csv" /\ ~kpi.raised

\* C29: for any customers CSV the rows accepted by the in-memory loaders are
\* the rows that pass normalization and validate_required_fields in
\* DataLoader.load_customers_from_csv.
C29_SameRowsAccepted ==
    FrameCustomersLoaded => CustomersFrame(kpi.backend) = AcceptedByDataLoader(kpi.file)

(***************************************************************************)
(* load_all_data as two transactions (specification Spec)                  *)
(***************************************************************************)
\* load_all_data has run and load_orders_from_xml raised in it
OrdersRaised == last.op = "load_all_data" /\ last.o.called /\ last.o.raised

\* load_all_data has run and load_customers_from_csv raised in it
CustomersRaised == last.op = "load_all_data" /\ last.c.raised

\* C30: load_all_data loads the customers file and then the orders file as
\* two transactions: when load_orders_from_xml raises, load_all_data raises
\* and the Customers committed by load_customers_from_csv stay in the store;
\* when load_customers_from_csv raises, load_orders_from_xml is not called
\* and no Order is added.
C30_TwoTransactions ==
    /\ OrdersRaised =>
          /\ last.raised
          /\ ~last.c.raised
          /\ customers = last.c.post.customers
          /\ orders = last.c.pre.orders
    /\ CustomersRaised =>
          /\ last.raised
          /\ ~last.o.called
          /\ orders = last.c.pre.orders

\* the orders load raised after the customers load had committed new rows
C30_Witness ==
    /\ OrdersRaised
    /\ last.c.loaded > 0
    /\ last.c.post.customers # last.c.pre.customers

====
